---- MODULE Spec2Model ----
(***************************************************************************)
(* A model of the Open Tabs Canvas plugin: the tab synchronisation engine  *)
(* (TabSyncHandler, TabScanHandler) bound to a canvas surface, and the     *)
(* create-from-batch operation of CanvasManager.                           *)
(*                                                                         *)
(* Every handler of the plugin runs to its next await on the single        *)
(* JavaScript thread, so each action below is one handler (or one          *)
(* await-to-await segment of an async method).  The host (Obsidian) and    *)
(* the user act between them: the Env actions.                             *)
(***************************************************************************)
EXTENDS Integers, Sequences, FiniteSets, TLC

\* ------------------------------------------------------------ bounds
NLeaves == 2
MaxCards == 2
MaxTimers == 2
MaxBatch == 2
MaxNotices == 4
\* The ceiling of the readiness wait, in poll intervals.
WaitCeiling == 3
MaxMembers == 3
MaxDropNotices == 2
MaxGridCalls == 2
MaxCount == 6
MaxActTimers == 2
\* The longest text typed into the output-folder field, in characters.
MaxFolderLen == 3
\* The most cards of the surface an index rebuild is applied to.
IndexCards == 3
\* The most callbacks of the engine registered with the workspace at once.
MaxListeners == 2
MaxPasses == 2
MaxPanes == 5
MaxOpenList == 2

\* ------------------------------------------------------------ program constants
DefaultCardWidth == 250
DefaultCardHeight == 250
DefaultSpacing == 50
NodeWidth == 250
NodeHeight == 250
DefaultCardSize == 250
DefaultCardSpacing == 50

\* ------------------------------------------------------------ universe
\* Documents of the vault that panes show and cards refer to.
Paths == {"a", "b"}
NoPath == ""
NoCard == 0

\* A pane shows a document, or a view without a file ("nofile": the view
\* type 'empty', or any other view whose file is unset; every reader of a
\* pane in the plugin treats the two alike).
LeafViews == {"nofile"} \cup Paths
Leaf == 1..NLeaves

\* The views a leaf handed to the plugin can hold.  View 1 is a canvas view:
\* its canvas object appears when the host has initialised it and then
\* stays.  View 2 is a view that never has a canvas (the leaf was navigated
\* to something else before the plugin looked at it).
View == {1, 2}
CanvasViews == {1}
\* The view of the leaf createCanvasFromOpenTabs opens the new file in.
CreatedView == 1

\* The entries of a batch handed to createCanvasFromOpenTabs: a tab with a
\* file, or a tab object without one.
TabKinds ==
  {[hasFile |-> TRUE, path |-> p] : p \in Paths}
    \cup {[hasFile |-> FALSE, path |-> NoPath]}
Batches == UNION {[1..n -> TabKinds] : n \in 0..MaxBatch}

\* What generateUUID can return.
UUIDs == {"u1", "u2"}

\* Values the sliders of the settings tab can store (cardSize 150..400,
\* cardSpacing 20..100).
CardSizes == {DefaultCardSize, DefaultCardSize + 50}
CardSpacings == {DefaultCardSpacing, DefaultCardSpacing + 25}
\* The texts the user can type into the output-folder field.
FolderTexts == UNION {[1..n -> {"/", "S"}] : n \in 0..MaxFolderLen}

\* The text a drag carries: none, text with a dot (taken as the path of a
\* document, or of no file of the vault: "ghost"), or text without one.
DragData ==
  {[empty |-> TRUE, dotted |-> FALSE, path |-> NoPath],
   [empty |-> FALSE, dotted |-> FALSE, path |-> NoPath]}
    \cup {[empty |-> FALSE, dotted |-> TRUE, path |-> p] : p \in Paths \cup {"ghost"}}

\* Arguments of the grid planner.
GridInputs ==
  [count : 0..MaxCount, width : {1, DefaultCardWidth}, height : {1, DefaultCardHeight},
   spacing : {0, DefaultSpacing}]

\* The shapes of a rendered card's file reference:
\*   "str"  : node.file is a path string
\*   "obj"  : node.file is a TFile object with a path
\*   "data" : node.file is missing, node.data.file is a path string
\*   "none" : no file reference (text or group card)
CardKinds ==
  {[shape |-> s, path |-> p] : s \in {"str", "obj", "data"}, p \in Paths}
    \cup {[shape |-> "none", path |-> NoPath]}

\* The cards a live surface renders: a file card holds a TFile object; a card
\* of an older canvas version holds its file only under data; a text card
\* holds none.
EnvCardKinds == {k \in CardKinds : k.shape # "str"}

\* The cards that appear on the surface of a canvas just created: a file
\* card of a document, or a text card.
CreateCardKinds == {k \in EnvCardKinds : k.shape = "none" \/ (k.shape = "obj" /\ k.path = "a")}

VARIABLES
  \* host workspace
  leafView,       \* Leaf -> LeafViews : what each pane shows
  activeLeaf,     \* 0 (workspace.activeLeaf is null) or a Leaf
  \* host canvas surfaces and their rendered cards
  hasCanvas,      \* View -> BOOLEAN : view.canvas exists
  nodes,          \* View -> Seq(card id) : canvas.nodes, in insertion order
  cards,          \* Seq(CardKinds) : every card object created so far, by id
  activeTab,      \* set of card ids whose nodeEl has class is-active-tab
  bgOpen,         \* set of card ids whose nodeEl has class is-background-tab-open
  \* TabSyncHandler
  scanWired,      \* the constructor was given a TabScanHandler
  canvasView,     \* 0 (null) or the View of leaf.view
  activeFileMap,  \* Paths -> card id, NoCard where the map has no entry
  eventRef,       \* the active-leaf-change subscription is registered
  listeners,      \* active-leaf-change callbacks of the engine the workspace holds
  hasRetriedBuildingMap,
  retryTimers,    \* pending setTimeout callbacks of buildFileNodeMap
  \* TabScanHandler
  scanView,       \* TabScanHandler.canvasView: 0 or a View
  \* CardInteractionHandler
  clickRef,       \* canvasClickRef: the layout-change listener is registered
  attachTimers,   \* pending 800 ms timers of registerCanvasInstance
  handlers,       \* set of card ids that carry the interaction listeners
  \* a createCanvasFromOpenTabs call
  pc,             \* the await the call is at
  tabs,           \* its batch
  caller,         \* "none", "direct" or "command"
  result,         \* "none", "null", "file" or "rejected"
  vaultFiles,     \* the content of the files the call created: <<>> or <<doc>>
  paneOpen,       \* the new file is open in a new leaf
  elapsed,        \* poll intervals since the readiness wait began
  waitResult,     \* "none", "ready" (true) or "timeout" (false)
  canvasData,     \* what generateCanvasJSON returned
  notices,        \* the Notices shown, in order
  \* plugin settings
  settings,       \* plugin.settings
  \* DragDropHandler: a drop on a canvas and the canvas file it appends to
  disk,           \* the text of the canvas file in the vault
  dropPc,         \* the await the drop handler is at: "idle", "reading", "writing"
  newNode,        \* the node object the drop handler built
  content,        \* what vault.read returned
  updatedContent, \* what vault.modify was called with
  dropNotices,    \* the Notices the drop handler showed, in order
  \* grid planner calls
  gridIn,         \* the arguments of calculateMosaicPositions
  gridOut,        \* the results of the calls made with them, in order
  nodeViews,      \* a canvas.nodes collection handed to the per-card passes
  passOut,        \* what the passes run over it did, in order
  \* an openFilesInBackground call and the panes of the workspace it works on
  panes,          \* Seq([type, path]) : the leaves, by view type and file
  openList,       \* the files of the call, in order
  openAt,         \* the index of the file whose openFile is awaited
  openPc,         \* "idle" or "opening"
  successCount,
  openErrors,     \* the files whose open failure the call logged
  \* auto-activation (main.ts) and what it installs on the canvas
  actTimers,      \* pending 800 ms timers of reactivateCanvasIfNeeded
  dropWired,      \* the drop listener is on the canvas container
  menuWired,      \* the contextmenu listener is on the canvas container
  \* history of the run (not program state)
  lastOp,         \* the handler that ran last: "bind", "focus", "cleanup",
                  \* "call", "cmd", "save", "overwrite" (a write over a
                  \* text that is not the one the append read), "other"
  epoch           \* what the rebuilds of the current bind did

hostVars == <<leafView, activeLeaf>>
surfaceVars == <<hasCanvas, nodes, cards>>
markVars == <<activeTab, bgOpen>>
engineVars == <<canvasView, activeFileMap, eventRef, listeners, hasRetriedBuildingMap,
                retryTimers, scanView>>

cardVars == <<clickRef, attachTimers, handlers>>
createVars == <<pc, tabs, caller, result, vaultFiles, paneOpen, elapsed,
                waitResult, canvasData, notices>>

dropVars == <<disk, dropPc, newNode, content, updatedContent, dropNotices>>
gridVars == <<gridIn, gridOut, nodeViews, passOut>>
actVars == <<actTimers, dropWired, menuWired>>
menuVars == <<panes, openList, openAt, openPc, successCount, openErrors>>
restVars == <<settings, dropVars, gridVars, actVars, menuVars>>

vars == <<hostVars, surfaceVars, markVars, scanWired, engineVars, cardVars,
          createVars, restVars, lastOp, epoch>>

\* ------------------------------------------------------------ helpers
Range(s) == {s[i] : i \in DOMAIN s}

RemoveAt(s, i) == [j \in 1..(Len(s) - 1) |-> IF j < i THEN s[j] ELSE s[j + 1]]

\* The last card of sequence ns whose extracted path (pathOf[card]) is p:
\* Map.set in iteration order, so a later card replaces an earlier one.
LastWithPath(ns, p, pathOf) ==
  LET hits == {i \in DOMAIN ns : pathOf[ns[i]] = p}
  IN IF hits = {} THEN NoCard
     ELSE ns[CHOOSE i \in hits : \A j \in hits : j <= i]

EmptyMap == [p \in Paths |-> NoCard]

\* ------------------------------------------------------------ TabSyncHandler
\* A path extraction that takes the path of any card, wherever it is kept.
IndexPath_Any(c) == cards[c].path

\* buildFileNodeMap's path of a card: a string file, else the string path of
\* a file object, else null.
IndexPath(c) ==
  IF cards[c].shape \in {"str", "obj"} THEN cards[c].path ELSE NoPath

\* buildFileNodeMap without its retry guard: it starts a timer whenever it
\* finds no valid entry.
BuildFileNodeMap_Unguarded(cv, retried) ==
  IF cv = 0 \/ ~hasCanvas[cv]
    THEN [map |-> EmptyMap, outcome |-> "throw"]
  ELSE IF Len(nodes[cv]) = 0
    THEN [map |-> EmptyMap, outcome |-> "nonodes"]
  ELSE
    [map |-> [p \in Paths |-> LastWithPath(nodes[cv], p, [c \in DOMAIN cards |-> IndexPath(c)])],
     outcome |-> IF \A i \in DOMAIN nodes[cv] : IndexPath(nodes[cv][i]) = NoPath
                   THEN "retry" ELSE "ok"]

\* buildFileNodeMap on the engine's view cv with retry guard `retried`:
\* the new map and what the rebuild did.
\*   "throw"   : this.canvasView is null or has no canvas (TypeError, after
\*               the map was cleared)
\*   "nonodes" : canvas.nodes is empty (early return)
\*   "ok"      : at least one valid entry
\*   "retry"   : none valid, size > 0, guard not set: guard set, timer started
\*   "fail"    : none valid, size > 0, guard set: console.error
BuildFileNodeMap(cv, retried) ==
  IF cv = 0 \/ ~hasCanvas[cv]
    THEN [map |-> EmptyMap, outcome |-> "throw"]
  ELSE IF Len(nodes[cv]) = 0
    THEN [map |-> EmptyMap, outcome |-> "nonodes"]
  ELSE
    LET map == [p \in Paths |-> LastWithPath(nodes[cv], p, [c \in DOMAIN cards |-> IndexPath(c)])]
        validNodeCount ==
          Cardinality({i \in DOMAIN nodes[cv] : IndexPath(nodes[cv][i]) # NoPath})
    IN [map |-> map,
        outcome |-> IF validNodeCount = 0
                      THEN (IF retried THEN "fail" ELSE "retry")
                      ELSE "ok"]

\* setupActiveLeafListener that registers without removing the previous
\* listener.
SetupActiveLeafListener_NoOffref(ref, n) == n + 1

\* setupActiveLeafListener: the callbacks the workspace holds after it, n
\* before it, ref telling whether this.eventRef is set: offref of the
\* previous listener, then one registration.
SetupActiveLeafListener(ref, n) == (IF ref THEN n - 1 ELSE n) + 1

\* clearAllHighlights that removes nothing.
ClearAllHighlights_Keep(cv, act) == act

\* clearAllHighlights: removes is-active-tab from every card of canvas.nodes.
ClearAllHighlights(cv, act) ==
  IF cv = 0 \/ ~hasCanvas[cv] THEN act ELSE act \ Range(nodes[cv])

\* highlightNode that adds nothing.
HighlightNode_Skip(c, act) == act

\* highlightNode: adds is-active-tab to the card's element.
HighlightNode(c, act) == act \cup {c}

\* updateActiveHighlight with the engine's view cv and index map.
UpdateActiveHighlight(cv, map, act) ==
  IF activeLeaf = 0
    THEN ClearAllHighlights(cv, act)
  ELSE IF leafView[activeLeaf] = "nofile"
    THEN ClearAllHighlights(cv, act)
  ELSE
    LET activeFilePath == leafView[activeLeaf]
        nodeView == map[activeFilePath]
    IN IF nodeView # NoCard
         THEN HighlightNode(nodeView, ClearAllHighlights(cv, act))
         ELSE ClearAllHighlights(cv, act)

\* ------------------------------------------------------------ TabScanHandler
\* getAllOpenMarkdownLeaves: the file of every pane that has one.
OpenPaths == {leafView[l] : l \in Leaf} \cap Paths

\* getAllCanvasFileNodes's path of a card: a string file, else file.path,
\* else data.file.
ScanPath(c) ==
  IF cards[c].shape \in {"str", "obj", "data"} THEN cards[c].path ELSE NoPath

\* getAllCanvasFileNodes: path -> card, a later card replacing an earlier one.
CanvasFileNodes(sv) ==
  [p \in Paths |->
     IF sv = 0 \/ ~hasCanvas[sv] THEN NoCard
     ELSE LastWithPath(nodes[sv], p, [c \in DOMAIN cards |-> ScanPath(c)])]

\* scanOpenTabs: the new set of cards carrying is-background-tab-open.
ScanOpenTabs(sv, bg) ==
  IF sv = 0 THEN bg
  ELSE
    LET fileNodes == CanvasFileNodes(sv)
        found == {q \in Paths : fileNodes[q] # NoCard}
        marked == {fileNodes[p] : p \in found \cap OpenPaths}
        unmarked == {fileNodes[p] : p \in found \ OpenPaths}
    IN (bg \ unmarked) \cup marked

\* ------------------------------------------------------------ history
\* What the rebuilds belonging to the current setupTabSync call did:
\*   attempts  : buildFileNodeMap runs (the call's own and its timer's)
\*   scheduled : retry timers those runs started
\*   first     : outcome of the call's own rebuild ("none" before it ran)
\*   retry     : outcome of the retry rebuild ("none" before it ran)
\*   diag      : console.error diagnostics of the retry guard's else branch
\*   own       : pending timers started in this bind (timers fire in the
\*               order they were started, all with the same delay)
\*   tainted   : a timer of an earlier bind fired during this bind
FreshEpoch ==
  [attempts |-> 0, scheduled |-> 0, first |-> "none", retry |-> "none",
   diag |-> 0, own |-> 0, tainted |-> FALSE]

\* ------------------------------------------------------------ the host
\* A pane is opened, closed or navigated.
EnvSetLeaf(l, lv) ==
  /\ leafView[l] # lv
  /\ leafView' = [leafView EXCEPT ![l] = lv]
  /\ UNCHANGED <<activeLeaf, surfaceVars, markVars, scanWired, engineVars>>

\* The focus moves to another pane, or to none.
EnvSetActive(l) ==
  /\ activeLeaf # l
  /\ activeLeaf' = l
  /\ UNCHANGED <<leafView, surfaceVars, markVars, scanWired, engineVars>>

\* The host finishes initialising a canvas view: view.canvas exists.
EnvCanvasInit(v) ==
  /\ ~hasCanvas[v]
  /\ hasCanvas' = [hasCanvas EXCEPT ![v] = TRUE]
  /\ UNCHANGED <<nodes, cards, hostVars, markVars, scanWired, engineVars>>

\* The surface renders a new card (host load, user edit, an append).
EnvAddCard(v, kind) ==
  /\ hasCanvas[v]
  /\ Len(cards) < MaxCards
  /\ cards' = Append(cards, kind)
  /\ nodes' = [nodes EXCEPT ![v] = Append(@, Len(cards) + 1)]
  /\ UNCHANGED <<hasCanvas, hostVars, markVars, scanWired, engineVars>>

\* The user deletes a card: it leaves canvas.nodes; its object lives on
\* wherever the plugin still holds it.
EnvRemoveCard(v, i) ==
  /\ i \in DOMAIN nodes[v]
  /\ nodes' = [nodes EXCEPT ![v] = RemoveAt(@, i)]
  /\ UNCHANGED <<hasCanvas, cards, hostVars, markVars, scanWired, engineVars>>

\* ------------------------------------------------------------ handlers
\* What setupTabSync(leaf) with leaf.view = v does:
\*   "early" : no canvas on the view: warn and return, after canvasView and
\*             the retry guard were set;
\*   "throw" : no TabScanHandler was passed to the constructor: the call of
\*             this.tabScanHandler.setupTabChangeListeners throws a TypeError;
\*   else the outcome of the index rebuild, after: scan, build the index,
\*   scan, register the listener, highlight.
SetupOutcome(v) ==
  IF ~hasCanvas[v] THEN "early"
  ELSE IF ~scanWired THEN "throw"
  ELSE BuildFileNodeMap(v, FALSE).outcome

SetupTabSync(v) ==
  /\ retryTimers < MaxTimers
  /\ listeners < MaxListeners
  /\ canvasView' = v
  /\ UNCHANGED <<hostVars, surfaceVars, scanWired>>
  /\ IF SetupOutcome(v) \in {"early", "throw"} THEN
       /\ hasRetriedBuildingMap' = FALSE
       /\ UNCHANGED <<markVars, activeFileMap, eventRef, listeners, retryTimers, scanView>>
     ELSE
       LET built == BuildFileNodeMap(v, FALSE)
       IN /\ scanView' = v
          /\ bgOpen' = ScanOpenTabs(v, ScanOpenTabs(v, bgOpen))
          /\ activeFileMap' = built.map
          /\ hasRetriedBuildingMap' = (built.outcome = "retry")
          /\ retryTimers' = retryTimers + (IF built.outcome = "retry" THEN 1 ELSE 0)
          /\ eventRef' = TRUE
          /\ listeners' = SetupActiveLeafListener(eventRef, listeners)
          /\ activeTab' = UpdateActiveHighlight(v, built.map, activeTab)

\* The active-leaf-change callback: updateActiveHighlight, then scanOpenTabs.
OnActiveLeafChange ==
  /\ listeners > 0
  /\ activeTab' = UpdateActiveHighlight(canvasView, activeFileMap, activeTab)
  /\ bgOpen' = ScanOpenTabs(scanView, bgOpen)
  /\ UNCHANGED <<hostVars, surfaceVars, scanWired, engineVars>>

\* A retry timer fires: buildFileNodeMap on whatever the engine holds now.
RetryTimerFires ==
  /\ retryTimers > 0
  /\ LET built == BuildFileNodeMap(canvasView, hasRetriedBuildingMap)
     IN /\ activeFileMap' = built.map
        /\ hasRetriedBuildingMap' = (hasRetriedBuildingMap \/ built.outcome = "retry")
        /\ retryTimers' = retryTimers - 1 + (IF built.outcome = "retry" THEN 1 ELSE 0)
  /\ UNCHANGED <<hostVars, surfaceVars, markVars, scanWired, canvasView,
                 eventRef, listeners, scanView>>

\* TabSyncHandler.cleanup, as onunload calls it.
Cleanup ==
  /\ canvasView # 0 \/ eventRef
  /\ activeTab' = ClearAllHighlights(canvasView, activeTab)
  /\ eventRef' = FALSE
  /\ listeners' = IF eventRef THEN listeners - 1 ELSE listeners
  /\ activeFileMap' = EmptyMap
  /\ canvasView' = 0
  /\ hasRetriedBuildingMap' = FALSE
  /\ UNCHANGED <<hostVars, surfaceVars, bgOpen, scanWired, retryTimers, scanView>>

\* ------------------------------------------------------------ TabTracker
\* An enumeration that pushes an entry for every pane, document or not.
RECURSIVE TabsOfLeaves_All(_)
TabsOfLeaves_All(n) ==
  IF n = 0 THEN <<>>
  ELSE Append(TabsOfLeaves_All(n - 1),
              [hasFile |-> leafView[n] \in Paths, path |-> leafView[n]])

\* getAllOpenTabs: one entry per pane that shows a document, in the host's
\* traversal order.
RECURSIVE TabsOfLeaves(_)
TabsOfLeaves(n) ==
  IF n = 0 THEN <<>>
  ELSE IF leafView[n] \in Paths
    THEN Append(TabsOfLeaves(n - 1), [hasFile |-> TRUE, path |-> leafView[n]])
    ELSE TabsOfLeaves(n - 1)

GetAllOpenTabs == TabsOfLeaves(NLeaves)

\* ------------------------------------------------------------ CanvasManager
\* metadata: {version: "1.0", frontmatter: {}}; the empty object and the
\* empty array are both the empty function <<>>.
DefaultMetadata == [version |-> "1.0", frontmatter |-> <<>>]

\* A first document without metadata.
EmptyStructure_NoMetadata == [nodes |-> <<>>, edges |-> <<>>]

\* The empty, structurally complete canvas document of step 1.
EmptyStructure == [nodes |-> <<>>, edges |-> <<>>, metadata |-> DefaultMetadata]

\* Math.floor(Math.sqrt(n)).
CeilSqrt_Floor(n) == CHOOSE c \in 0..n : c * c <= n /\ (c + 1) * (c + 1) > n

\* Math.ceil(Math.sqrt(n)).
CeilSqrt(n) == CHOOSE c \in 0..n : c * c >= n /\ (c = 0 \/ (c - 1) * (c - 1) < n)

\* A planner that puts every card in the first row.
CalculateMosaicPositions_OneRow(cardCount, cardWidth, cardHeight, spacing) ==
  LET columnsPerRow == CeilSqrt(cardCount)
  IN [k \in 1..cardCount |->
        [x |-> ((k - 1) % columnsPerRow) * (cardWidth + spacing), y |-> 0]]

\* calculateMosaicPositions(cardCount, cardWidth, cardHeight, spacing).
CalculateMosaicPositions(cardCount, cardWidth, cardHeight, spacing) ==
  LET columnsPerRow == CeilSqrt(cardCount)
  IN [k \in 1..cardCount |->
        LET i == k - 1
            row == i \div columnsPerRow
            col == i % columnsPerRow
        IN [x |-> col * (cardWidth + spacing), y |-> row * (cardHeight + spacing)]]

\* The indices of the tabs that have a file with a path, in order.
RECURSIVE ValidTabIndices(_, _)
ValidTabIndices(batch, n) ==
  IF n = 0 THEN <<>>
  ELSE IF batch[n].hasFile /\ batch[n].path # NoPath
    THEN Append(ValidTabIndices(batch, n - 1), n)
    ELSE ValidTabIndices(batch, n - 1)

\* generateCanvasJSON laying the tabs out in reverse order.
GenerateCanvasJSON_Reversed(batch, ids) ==
  LET positions == CalculateMosaicPositions(Len(batch), DefaultCardWidth,
                                            DefaultCardHeight, DefaultSpacing)
  IN [nodes |-> [k \in 1..Len(batch) |->
                   [id |-> ids[k],
                    type |-> "file",
                    file |-> batch[Len(batch) + 1 - k].path,
                    x |-> positions[k].x,
                    y |-> positions[k].y,
                    width |-> NodeWidth,
                    height |-> NodeHeight]],
      edges |-> <<>>,
      metadata |-> DefaultMetadata]

\* generateCanvasJSON(tabs), ids[i] being what generateUUID returns for tab i.
GenerateCanvasJSON(batch, ids) ==
  LET positions == CalculateMosaicPositions(Len(batch), DefaultCardWidth,
                                            DefaultCardHeight, DefaultSpacing)
      valid == ValidTabIndices(batch, Len(batch))
  IN [nodes |-> [k \in 1..Len(valid) |->
                   [id |-> ids[valid[k]],
                    type |-> "file",
                    file |-> batch[valid[k]].path,
                    x |-> positions[valid[k]].x,
                    y |-> positions[valid[k]].y,
                    width |-> NodeWidth,
                    height |-> NodeHeight]],
      edges |-> <<>>,
      metadata |-> DefaultMetadata]

\* A first test that lets every batch through.
IsEmptyBatch_Never(batch) == FALSE

\* createCanvasFromOpenTabs's first test: an empty batch returns null.
IsEmptyBatch(batch) == Len(batch) = 0

\* A readiness loop without the ceiling.
WaitCheck_NoCeiling(el, v) ==
  IF hasCanvas[v]
    THEN (IF Len(nodes[v]) > 0 THEN "readyNodes" ELSE "ready")
  ELSE "sleep"

\* A readiness loop that reports ready when the ceiling has elapsed.
WaitCheck_ReadyAtCeiling(el, v) ==
  IF el >= WaitCeiling \/ hasCanvas[v]
    THEN (IF hasCanvas[v] /\ Len(nodes[v]) > 0 THEN "readyNodes" ELSE "ready")
  ELSE "sleep"

\* One turn of waitForCanvasFullyReady's loop, el poll intervals after its
\* start, on the view of the new leaf:
\*   "timeout"    : the ceiling has elapsed: return false
\*   "readyNodes" : canvas with a non-empty node collection: settle 500 ms,
\*                  then return true
\*   "ready"      : canvas exists, nodes empty or absent: return true
\*   "sleep"      : no canvas yet: wait one poll interval
WaitCheck(el, v) ==
  IF el >= WaitCeiling THEN "timeout"
  ELSE IF hasCanvas[v]
    THEN (IF Len(nodes[v]) > 0 THEN "readyNodes" ELSE "ready")
  ELSE "sleep"

\* ------------------------------------------------------------ create-from-batch
\* The call runs from one await to the next; pc names the await it is at.
\*   "idle"       no call in flight
\*   "creating"   await vault.create
\*   "opening"    await leaf.openFile
\*   "waiting"    in waitForCanvasFullyReady's loop
\*   "ready500"   in waitForCanvasFullyReady's 500 ms settle
\*   "settle800"  await the 800 ms delay of step 5
\*   "modifying"  await vault.modify
\*   "settle600"  await the 600 ms delay of step 6
\*   "done"       resolved with the file
\*   "failed"     rejected

\* A callback that shows nothing when the call settles.
SettleNotices_Silent(by, ok, n) == <<>>

\* What the command's callback shows when the call settles.
SettleNotices(by, ok, n) ==
  IF by # "command" THEN <<>>
  ELSE IF ok THEN <<[text |-> "Canvas created with N tabs!", n |-> n]>>
  ELSE <<[text |-> "Failed to create canvas. Check console for details.", n |-> 0]>>

\* createCanvasFromOpenTabs(batch), called directly (by = "direct") or by the
\* command (by = "command"), up to its first await.
BeginCreate(batch, by) ==
  /\ pc = "idle"
  /\ tabs' = batch
  /\ caller' = by
  /\ IF IsEmptyBatch(batch)
       THEN /\ result' = "null"
            /\ pc' = "idle"
       ELSE /\ result' = "none"
            /\ pc' = "creating"
  /\ UNCHANGED <<vaultFiles, paneOpen, elapsed, waitResult, canvasData>>

\* The 'Open Tabs to Canvas' command.
CmdOpenTabsToCanvas ==
  /\ Len(notices) + 3 <= MaxNotices
  /\ IF Len(GetAllOpenTabs) > 0
       THEN /\ BeginCreate(GetAllOpenTabs, "command")
            /\ notices' = Append(notices, [text |-> "Creating canvas...", n |-> 0])
       ELSE /\ pc = "idle"
            /\ notices' = Append(notices,
                 [text |-> "No open tabs to create a canvas from.", n |-> 0])
            /\ tabs' = <<>>
            /\ caller' = "command"
            /\ UNCHANGED <<pc, result, vaultFiles, paneOpen, elapsed, waitResult,
                           canvasData>>
  /\ UNCHANGED <<hostVars, surfaceVars, markVars, scanWired, engineVars, cardVars>>

\* A direct call of createCanvasFromOpenTabs.
CallCreate(batch) ==
  /\ BeginCreate(batch, "direct")
  /\ UNCHANGED <<notices, hostVars, surfaceVars, markVars, scanWired,
                 engineVars, cardVars>>

\* vault.create settles.  On success the empty structure is on disk and the
\* call goes on to getLeaf('tab') and leaf.openFile; a null leaf throws,
\* shows "Failed to create canvas." and rejects.
VaultCreateDone(ok, leafOk) ==
  /\ pc = "creating"
  /\ IF ~ok THEN
       /\ pc' = "failed" /\ result' = "rejected"
       /\ notices' = notices \o SettleNotices(caller, FALSE, 0)
       /\ UNCHANGED vaultFiles
     ELSE IF ~leafOk THEN
       /\ vaultFiles' = <<EmptyStructure>>
       /\ pc' = "failed" /\ result' = "rejected"
       /\ notices' = notices \o <<[text |-> "Failed to create canvas.", n |-> 0]>>
                             \o SettleNotices(caller, FALSE, 0)
     ELSE
       /\ vaultFiles' = <<EmptyStructure>>
       /\ pc' = "opening"
       /\ UNCHANGED <<result, notices>>
  /\ UNCHANGED <<tabs, caller, paneOpen, elapsed, waitResult, canvasData,
                 hostVars, surfaceVars, markVars, scanWired, engineVars, cardVars>>

\* leaf.openFile settles.
OpenFileDone(ok) ==
  /\ pc = "opening"
  /\ IF ok THEN
       /\ paneOpen' = TRUE
       /\ pc' = "waiting"
       /\ elapsed' = 0
       /\ UNCHANGED <<result, notices>>
     ELSE
       /\ pc' = "failed" /\ result' = "rejected"
       /\ notices' = notices \o <<[text |-> "Failed to create canvas.", n |-> 0]>>
                             \o SettleNotices(caller, FALSE, 0)
       /\ UNCHANGED <<paneOpen, elapsed>>
  /\ UNCHANGED <<tabs, caller, vaultFiles, waitResult, canvasData,
                 hostVars, surfaceVars, markVars, scanWired, engineVars, cardVars>>

\* One turn of the readiness loop.  When the wait returns (true or false:
\* the caller ignores which), step 4 generates the canvas data and the call
\* awaits the 800 ms delay.  A sleep ends at least one poll interval later
\* (the clock is not counted beyond the ceiling).
WaitPoll ==
  /\ pc = "waiting"
  /\ LET d == WaitCheck(elapsed, CreatedView)
     IN \/ /\ d = "sleep"
           /\ IF elapsed < WaitCeiling
                THEN \E t \in (elapsed + 1)..WaitCeiling : elapsed' = t
                ELSE elapsed' = elapsed
           /\ UNCHANGED <<pc, waitResult, canvasData>>
        \/ /\ d = "readyNodes"
           /\ pc' = "ready500"
           /\ UNCHANGED <<elapsed, waitResult, canvasData>>
        \/ /\ d \in {"ready", "timeout"}
           /\ waitResult' = d
           /\ \E ids \in [1..Len(tabs) -> UUIDs] :
                canvasData' = GenerateCanvasJSON(tabs, ids)
           /\ pc' = "settle800"
           /\ UNCHANGED elapsed
  /\ UNCHANGED <<tabs, caller, result, vaultFiles, paneOpen, notices,
                 hostVars, surfaceVars, markVars, scanWired, engineVars, cardVars>>

\* The 500 ms settle of a wait that saw nodes ends: it returns true.
Ready500Done ==
  /\ pc = "ready500"
  /\ waitResult' = "ready"
  /\ \E ids \in [1..Len(tabs) -> UUIDs] :
       canvasData' = GenerateCanvasJSON(tabs, ids)
  /\ pc' = "settle800"
  /\ UNCHANGED <<tabs, caller, result, vaultFiles, paneOpen, notices, elapsed,
                 hostVars, surfaceVars, markVars, scanWired, engineVars, cardVars>>

\* The 800 ms delay ends: vault.modify is called with the canvas data.
Settle800Done ==
  /\ pc = "settle800"
  /\ pc' = "modifying"
  /\ UNCHANGED <<tabs, caller, result, vaultFiles, paneOpen, notices, elapsed,
                 waitResult, canvasData,
                 hostVars, surfaceVars, markVars, scanWired, engineVars, cardVars>>

\* vault.modify settles.
VaultModifyDone(ok) ==
  /\ pc = "modifying"
  /\ IF ok THEN
       /\ vaultFiles' = <<canvasData>>
       /\ pc' = "settle600"
       /\ UNCHANGED <<result, notices>>
     ELSE
       /\ pc' = "failed" /\ result' = "rejected"
       /\ notices' = notices \o SettleNotices(caller, FALSE, 0)
       /\ UNCHANGED vaultFiles
  /\ UNCHANGED <<tabs, caller, paneOpen, elapsed, waitResult, canvasData,
                 hostVars, surfaceVars, markVars, scanWired, engineVars, cardVars>>

\* CardInteractionHandler.setupCardClickListeners(file, leaf) with
\* leaf.view = v: without a canvas it returns; else it registers the global
\* layout-change listener once, registers the canvas and starts the 800 ms
\* timer that attaches the node listeners.
SetupCardClickListeners(v) ==
  IF ~hasCanvas[v]
    THEN UNCHANGED cardVars
    ELSE /\ clickRef' = TRUE
         /\ attachTimers' = attachTimers + 1
         /\ UNCHANGED handlers

\* The 600 ms delay ends: step 7 sets up the interaction handlers and the tab
\* sync on the leaf, and the call returns the file.  A TypeError out of
\* setupTabSync rejects the call.
Settle600Done ==
  /\ pc = "settle600"
  /\ SetupCardClickListeners(CreatedView)
  /\ SetupTabSync(CreatedView)
  /\ IF SetupOutcome(CreatedView) = "throw"
       THEN /\ pc' = "failed" /\ result' = "rejected"
            /\ notices' = notices \o SettleNotices(caller, FALSE, 0)
       ELSE /\ pc' = "done" /\ result' = "file"
            /\ notices' = notices \o SettleNotices(caller, TRUE, Len(tabs))
  /\ UNCHANGED <<tabs, caller, vaultFiles, paneOpen, elapsed, waitResult,
                 canvasData>>

\* The 800 ms timer of registerCanvasInstance fires, or the layout-change
\* listener runs: attachNodeEventListeners puts the handlers on every card
\* of the canvas.
AttachTimerFires ==
  /\ attachTimers > 0
  /\ attachTimers' = attachTimers - 1
  /\ handlers' = handlers \cup Range(nodes[CreatedView])
  /\ UNCHANGED <<clickRef, createVars, hostVars, surfaceVars, markVars,
                 scanWired, engineVars>>

OnLayoutChange ==
  /\ clickRef
  /\ handlers' = handlers \cup UNION {Range(nodes[v]) : v \in {w \in View : hasCanvas[w]}}
  /\ UNCHANGED <<clickRef, attachTimers, createVars, hostVars, surfaceVars,
                 markVars, scanWired, engineVars>>

\* ------------------------------------------------------------ settings
\* A folder path as its characters: "/" and the letters of names, all
\* letters alike ("S").  "/Sensemaking/" is a slash, a name, a slash.
DefaultFolder == <<"/", "S", "/">>

\* DEFAULT_SETTINGS, as far as the layout goes.
DefaultSettings ==
  [autoActivateOnAllCanvases |-> TRUE,
   cardSize |-> DefaultCardSize,
   cardSpacing |-> DefaultCardSpacing,
   enableBatchOperations |-> TRUE,
   canvasOutputFolder |-> DefaultFolder]

\* The slider of 'Default card width/height': onChange stores the value
\* (saveSettings writes it to the plugin's data).
SetCardSize(v) ==
  /\ settings.cardSize # v
  /\ settings' = [settings EXCEPT !.cardSize = v]

\* The slider of 'Card spacing'.
SetCardSpacing(v) ==
  /\ settings.cardSpacing # v
  /\ settings' = [settings EXCEPT !.cardSpacing = v]

\* The text field of 'Canvas output folder': onChange puts a "/" in front of
\* a value that does not start with one, drops one trailing "/" of a value
\* longer than one character, and stores the result.
NormalizeFolder(value) ==
  LET normalized == IF Len(value) > 0 /\ value[1] = "/"
                      THEN value ELSE <<"/">> \o value
  IN IF normalized[Len(normalized)] = "/" /\ Len(normalized) > 1
       THEN SubSeq(normalized, 1, Len(normalized) - 1)
       ELSE normalized

EditFolder(value) ==
  settings' = [settings EXCEPT !.canvasOutputFolder = NormalizeFolder(value)]

\* loadSettings: Object.assign({}, DEFAULT_SETTINGS, data), data being what
\* loadData returns: nothing (an empty record) or the settings last saved.
LoadSettings(data) ==
  settings' = [k \in DOMAIN DefaultSettings \cup DOMAIN data |->
                 IF k \in DOMAIN data THEN data[k] ELSE DefaultSettings[k]]

\* ------------------------------------------------------------ auto-activation
\* plugin.settings[k] for a key the settings object may not have: undefined
\* is falsy.
SettingOrUndefined(k) == IF k \in DOMAIN settings THEN settings[k] ELSE FALSE

\* The toggles of the settings tab.
ToggleAutoActivate ==
  settings' = [settings EXCEPT !.autoActivateOnAllCanvases = ~@]

ToggleBatchOperations ==
  settings' = [settings EXCEPT !.enableBatchOperations = ~@]

\* reactivateCanvasIfNeeded's test for file cards: node.file or
\* node.data.file.
HasFileNodes(v) == \E i \in DOMAIN nodes[v] : cards[nodes[v][i]].shape # "none"

\* reactivateCanvasIfNeeded(canvasFile), view v showing the file in a canvas
\* leaf when leafFound:
\*   "noleaf"      : no canvas leaf shows the file: warn, return
\*   "notready"    : no canvas or no canvas.nodes on the view: warn, return
\*   "nofilenodes" : no file card: log, return
\*   "timer"       : the 800 ms activation timer is started
ReactivateOutcome(v, leafFound) ==
  IF ~leafFound THEN "noleaf"
  ELSE IF ~hasCanvas[v] THEN "notready"
  ELSE IF ~HasFileNodes(v) THEN "nofilenodes"
  ELSE "timer"

\* The file-open listener of onload: a canvas file with the setting on goes
\* to reactivateCanvasIfNeeded; TRUE when that starts the timer.
FileOpenStarts(isCanvas, v, leafFound) ==
  /\ isCanvas
  /\ settings.autoActivateOnAllCanvases
  /\ ReactivateOutcome(v, leafFound) = "timer"

OnFileOpen(isCanvas, v, leafFound) ==
  /\ actTimers < MaxActTimers
  /\ actTimers' = actTimers + (IF FileOpenStarts(isCanvas, v, leafFound) THEN 1 ELSE 0)
  /\ UNCHANGED <<dropWired, menuWired>>

\* main.ts builds the context menu handler with new
\* CanvasContextMenuHandler(this.app): its plugin is undefined.
MenuHandlerHasPlugin == FALSE

\* setupTabDragDropListener(file, leaf) installs the listeners: the setting
\* enableDragDropToCanvas is truthy and the canvas has its container.
SetupTabDragDropListener(v) ==
  SettingOrUndefined("enableDragDropToCanvas") /\ hasCanvas[v]

\* setupCanvasContextMenu(file, leaf) installs the listener: the handler has
\* a plugin whose enableBatchOperations is on, and the canvas has its
\* container.
SetupCanvasContextMenu(v) ==
  MenuHandlerHasPlugin /\ settings.enableBatchOperations /\ hasCanvas[v]

\* The 800 ms timer of reactivateCanvasIfNeeded fires for the leaf with view
\* v: card listeners, tab sync, drag-drop, context menu, in this order inside
\* one try block; an exception ends the callback where it is thrown.
ActivationTimerFires(v) ==
  /\ actTimers > 0
  /\ attachTimers < MaxTimers
  /\ actTimers' = actTimers - 1
  /\ SetupCardClickListeners(v)
  /\ SetupTabSync(v)
  /\ IF SetupOutcome(v) = "throw"
       THEN UNCHANGED <<dropWired, menuWired>>
       ELSE /\ dropWired' = (dropWired \/ SetupTabDragDropListener(v))
            /\ menuWired' = (menuWired \/ SetupCanvasContextMenu(v))

\* ------------------------------------------------------------ JSON
\* A JSON value of a member, as far as addNodeToCanvas can tell values apart:
\* an array or an object with its entries in order, null (falsy), or a
\* string (truthy, neither array nor object).  Entries are tokens: the text
\* of one node, edge or metadata field.
Arr(items) == [t |-> "array", items |-> items]
Obj(items) == [t |-> "object", items |-> items]
Null == [t |-> "null", items |-> <<>>]
Str == [t |-> "string", items |-> <<>>]

\* The text of a file: not JSON at all ("garbage"), the literal null, a
\* top-level array, or an object with its members in the order of the text.
Garbage == [kind |-> "garbage", members |-> <<>>]
NullText == [kind |-> "null", members |-> <<>>]
ArrayText == [kind |-> "array", members |-> <<>>]
ObjectText(ms) == [kind |-> "object", members |-> ms]

\* Property names that are array indices: a JavaScript object enumerates
\* them first, whatever the order they were created in.
IndexKeys == {"1"}
IsIndexMember(m) == m.key \in IndexKeys
IsNameMember(m) == m.key \notin IndexKeys

\* JSON.parse(text): a SyntaxError for garbage; else the value, an object
\* holding its properties in JavaScript's own order (index keys, then names
\* in order of creation, i.e. of the text).
ParseJSON(text) ==
  IF text.kind = "garbage" THEN [threw |-> TRUE, value |-> NullText]
  ELSE IF text.kind = "object"
    THEN [threw |-> FALSE,
          value |-> ObjectText(SelectSeq(text.members, IsIndexMember)
                                 \o SelectSeq(text.members, IsNameMember))]
  ELSE [threw |-> FALSE, value |-> text]

\* JSON.stringify(value, null, 2): the own enumerable properties of an
\* object in order; of an array only its elements, so properties set on an
\* array object are not written.
StringifyJSON(value) ==
  IF value.kind = "object" THEN ObjectText(value.members)
  ELSE [kind |-> value.kind, members |-> <<>>]

HasKey(ms, k) == \E i \in DOMAIN ms : ms[i].key = k
GetKey(ms, k) == ms[CHOOSE i \in DOMAIN ms : ms[i].key = k].val

\* obj[k] = v: in place when the property exists, else created last.
PutKey(ms, k, v) ==
  IF HasKey(ms, k)
    THEN [i \in DOMAIN ms |-> IF ms[i].key = k THEN [key |-> k, val |-> v] ELSE ms[i]]
    ELSE Append(ms, [key |-> k, val |-> v])

\* A test that takes every property for missing.
Missing_Always(ms, k) == TRUE

\* !obj[k]: the property is missing or falsy.
Missing(ms, k) == ~HasKey(ms, k) \/ GetKey(ms, k).t = "null"

\* ------------------------------------------------------------ canvas files
\* metadata: {version: "1.0", frontmatter: {}} as a member value.
DefaultMetadataVal == Obj(<<"version 1.0", "frontmatter {}">>)

\* The canvas files a drop appends to: each member of a top-level object is
\* one of these, no key twice.
FileMembers ==
  {[key |-> "nodes", val |-> v] :
     v \in {Arr(<<>>), Arr(<<"group g">>), Arr(<<"card a", "group g">>), Null, Str}}
    \cup {[key |-> "edges", val |-> v] : v \in {Arr(<<>>), Arr(<<"edge 1", "edge 2">>)}}
    \cup {[key |-> "metadata", val |-> v] :
            v \in {Obj(<<"version 2.0">>), DefaultMetadataVal, Null}}
    \cup {[key |-> "viewport", val |-> Str], [key |-> "1", val |-> Str]}

FileTexts ==
  {Garbage, NullText, ArrayText}
    \cup {ObjectText(ms) :
            ms \in UNION {{m \in [1..n -> FileMembers] :
                             \A i, j \in 1..n : m[i].key = m[j].key => i = j} :
                          n \in 0..MaxMembers}}

\* ------------------------------------------------------------ DragDropHandler
\* The text of a node object in the file.
NodeToken(node) == IF node.file = "a" THEN "card a" ELSE "card b"

\* addNodeToCanvas between its two awaits: parse the content read, default
\* nodes, push the node, default metadata, stringify.  threw: JSON.parse
\* threw, or the value is null, or nodes is neither missing nor an array
\* (push is not a function).
PushNode(text, node) ==
  LET parsed == ParseJSON(text)
      v == parsed.value
      ms1 == IF Missing(v.members, "nodes")
               THEN PutKey(v.members, "nodes", Arr(<<>>)) ELSE v.members
      nodes1 == GetKey(ms1, "nodes")
      ms2 == PutKey(ms1, "nodes", Arr(Append(nodes1.items, NodeToken(node))))
      ms3 == IF Missing(ms2, "metadata")
               THEN PutKey(ms2, "metadata", DefaultMetadataVal) ELSE ms2
  IN IF parsed.threw \/ v.kind = "null" THEN [threw |-> TRUE, text |-> text]
     ELSE IF nodes1.t # "array" THEN [threw |-> TRUE, text |-> text]
     ELSE [threw |-> FALSE,
           text |-> StringifyJSON([kind |-> v.kind, members |-> ms3])]

NoNode == [file |-> NoPath, width |-> 0, height |-> 0]

\* extractFilePathFromDragData: text with a dot is taken as the path; else
\* the active pane's file, else null.
ExtractFilePath(data) ==
  IF data.dotted THEN data.path
  ELSE IF activeLeaf # 0 /\ leafView[activeLeaf] \in Paths
    THEN leafView[activeLeaf]
  ELSE NoPath

\* The drop listener, where setupTabDragDropListener has put it on the
\* canvas container, up to its first await (vault.read in
\* addNodeToCanvas).  alt: the Alt key is held; data: the dragged text.
Drop(alt, data) ==
  /\ dropWired
  /\ dropPc = "idle"
  /\ Len(dropNotices) < MaxDropNotices
  /\ LET filePath == ExtractFilePath(data)
     IN IF ~alt \/ data.empty \/ filePath = NoPath THEN
          UNCHANGED <<dropPc, newNode, dropNotices>>
        ELSE IF filePath \notin Paths THEN
          /\ dropNotices' = Append(dropNotices, "File not found")
          /\ UNCHANGED <<dropPc, newNode>>
        ELSE
          /\ newNode' = [file |-> filePath, width |-> settings.cardSize,
                         height |-> settings.cardSize]
          /\ dropPc' = "reading"
          /\ UNCHANGED dropNotices
  /\ UNCHANGED <<disk, content, updatedContent>>

\* vault.read settles.  A rejection, or an exception of the steps that
\* follow, is logged and rethrown by addNodeToCanvas and caught by the drop
\* listener, which shows the error Notice.  Otherwise vault.modify is called
\* with the updated text.
ReadDone(ok) ==
  /\ dropPc = "reading"
  /\ IF ok /\ ~PushNode(disk, newNode).threw THEN
       /\ content' = disk
       /\ updatedContent' = PushNode(disk, newNode).text
       /\ dropPc' = "writing"
       /\ UNCHANGED dropNotices
     ELSE
       /\ content' = IF ok THEN disk ELSE content
       /\ dropPc' = "idle"
       /\ dropNotices' = Append(dropNotices, "Error adding file to canvas")
       /\ UNCHANGED updatedContent
  /\ UNCHANGED <<disk, newNode>>

\* A write that appends to what the file holds when it is written.
WriteDone_Atomic(ok) ==
  /\ dropPc = "writing"
  /\ dropPc' = "idle"
  /\ IF ok THEN
       /\ disk' = PushNode(disk, newNode).text
       /\ dropNotices' = Append(dropNotices, "Added file to canvas")
     ELSE
       /\ dropNotices' = Append(dropNotices, "Error adding file to canvas")
       /\ UNCHANGED disk
  /\ UNCHANGED <<newNode, content, updatedContent>>

\* vault.modify settles: the file holds the updated text, and the listener
\* shows the success Notice; or the write failed.
WriteDone(ok) ==
  /\ dropPc = "writing"
  /\ dropPc' = "idle"
  /\ IF ok THEN
       /\ disk' = updatedContent
       /\ dropNotices' = Append(dropNotices, "Added file to canvas")
     ELSE
       /\ dropNotices' = Append(dropNotices, "Error adding file to canvas")
       /\ UNCHANGED disk
  /\ UNCHANGED <<newNode, content, updatedContent>>

\* The rendering surface saves the canvas: the user has added a card on it.
SurfaceSave ==
  /\ disk.kind = "object"
  /\ HasKey(disk.members, "nodes")
  /\ GetKey(disk.members, "nodes").t = "array"
  /\ \A i \in DOMAIN GetKey(disk.members, "nodes").items :
       GetKey(disk.members, "nodes").items[i] # "surface card"
  /\ disk' = ObjectText(PutKey(disk.members, "nodes",
               Arr(Append(GetKey(disk.members, "nodes").items, "surface card"))))
  /\ UNCHANGED <<dropPc, newNode, content, updatedContent, dropNotices>>

\* The user drops dragged text on the canvas container: the drop listener
\* runs if the container carries one.
UserDrop(alt, data) ==
  IF dropWired THEN Drop(alt, data) ELSE UNCHANGED dropVars

\* ------------------------------------------------------------ grid planner calls
\* calculateMosaicPositions is called with the arguments in gridIn.
PlanGrid ==
  /\ Len(gridOut) < MaxGridCalls
  /\ gridOut' = Append(gridOut,
       CalculateMosaicPositions(gridIn.count, gridIn.width, gridIn.height,
                                gridIn.spacing))
  /\ UNCHANGED <<gridIn, nodeViews, passOut>>

\* ------------------------------------------------------------ CanvasContextMenuHandler
\* extractFilePath's path of a card: raw is nodeView.file or, when that is
\* missing or empty, nodeView.data.file; a string raw, else raw.path, else
\* null.
MenuPath(c) ==
  IF cards[c].shape \in {"str", "obj", "data"} THEN cards[c].path ELSE NoPath

\* openFilesInBackground works on the files of the collected cards: a note
\* ("a") and a file that opens in a view of another type ("p", a PDF).
MenuFiles == {"a", "p"}

\* existingLeaves.find: a leaf of type 'markdown' whose view shows the file.
ExistingLeaf(ps, f) ==
  \E k \in DOMAIN ps : ps[k].type = "markdown" /\ ps[k].path = f

\* The loop from index i up to its next await: files found open are
\* skipped; the index of the first file to open, Len + 1 when none is left.
NextToOpen(list, i, ps) ==
  LET todo == {j \in i..Len(list) : ~ExistingLeaf(ps, list[j])}
  IN IF todo = {} THEN Len(list) + 1
     ELSE CHOOSE j \in todo : \A k \in todo : j <= k

\* openFilesInBackground(fileNodes) up to its first await: for the first
\* file not found open, getLeaf('tab') adds a leaf and openFile is awaited.
OpenFilesInBackground(list) ==
  /\ openPc = "idle"
  /\ Len(panes) + Len(list) <= MaxPanes
  /\ openList' = list
  /\ successCount' = 0
  /\ openErrors' = {}
  /\ LET j == NextToOpen(list, 1, panes)
     IN IF j > Len(list)
          THEN UNCHANGED <<panes, openPc, openAt>>
          ELSE /\ panes' = Append(panes, [type |-> "empty", path |-> NoPath])
               /\ openAt' = j
               /\ openPc' = "opening"

\* newLeaf.openFile settles.  On success the new leaf shows the file (a
\* note in a markdown view) and successCount grows; a rejection is caught
\* and logged and the leaf stays empty.  The loop then runs on to its next
\* await or to its end.
BatchOpenFileDone(ok) ==
  /\ openPc = "opening"
  /\ LET f == openList[openAt]
         opened == [panes EXCEPT ![Len(panes)] =
                      [type |-> IF f = "a" THEN "markdown" ELSE "pdf", path |-> f]]
         ps == IF ok THEN opened ELSE panes
         j == NextToOpen(openList, openAt + 1, ps)
     IN /\ successCount' = successCount + (IF ok THEN 1 ELSE 0)
        /\ openErrors' = IF ok THEN openErrors ELSE openErrors \cup {f}
        /\ IF j > Len(openList)
             THEN /\ panes' = ps
                  /\ openPc' = "idle"
                  /\ openAt' = 0
             ELSE /\ panes' = Append(ps, [type |-> "empty", path |-> NoPath])
                  /\ openAt' = j
                  /\ UNCHANGED openPc
  /\ UNCHANGED openList

\* No call in flight on an empty workspace.
MenuIdle ==
  /\ panes = <<>>
  /\ openList = <<>>
  /\ openAt = 0
  /\ openPc = "idle"
  /\ successCount = 0
  /\ openErrors = {}

\* ------------------------------------------------------------ per-card passes
\* An entry of canvas.nodes as the passes see it: null, or a node view with
\* a file object (shape "obj") or none, and with or without its nodeEl.
NullView == [isNull |-> TRUE, shape |-> "none", path |-> NoPath, hasEl |-> FALSE]

NodeViewKinds ==
  {NullView}
    \cup {[isNull |-> FALSE, shape |-> "obj", path |-> p, hasEl |-> e] :
            p \in Paths, e \in BOOLEAN}
    \cup {[isNull |-> FALSE, shape |-> "none", path |-> NoPath, hasEl |-> e] :
            e \in BOOLEAN}

\* The entries a forEach callback is entered for when the callback throws on
\* the entries in `bad`: those before the first bad one.
Reached(ns, bad) == {i \in DOMAIN ns : \A j \in 1..i : j \notin bad}

\* buildFileNodeMap's loop: a null entry is logged and skipped, an entry
\* without a path is logged; `done` are the entries put into the map.
BuildPass(ns) ==
  [pass |-> "build",
   threw |-> FALSE,
   visited |-> DOMAIN ns,
   done |-> {i \in DOMAIN ns : ~ns[i].isNull /\ ns[i].shape = "obj"}]

\* clearAllHighlights' loop: reading nodeView.nodeEl of a null entry throws;
\* `done` are the entries whose class was removed.
ClearPass(ns) ==
  LET bad == {i \in DOMAIN ns : ns[i].isNull}
  IN [pass |-> "clear",
      threw |-> bad # {},
      visited |-> Reached(ns, bad),
      done |-> {i \in Reached(ns, bad) : ns[i].hasEl}]

\* scanOpenTabs: getAllCanvasFileNodes reads node.file of every entry (a
\* null entry throws, before any mark is touched), then updateNodeHighlight
\* sets or removes the mark of the collected entries that have a nodeEl.
ScanPass(ns) ==
  LET bad == {i \in DOMAIN ns : ns[i].isNull}
      kept == {i \in DOMAIN ns :
                 /\ ns[i].shape = "obj"
                 /\ \A j \in DOMAIN ns :
                      (j > i /\ ns[j].shape = "obj") => ns[j].path # ns[i].path}
  IN [pass |-> "scan",
      threw |-> bad # {},
      visited |-> Reached(ns, bad),
      done |-> IF bad # {} THEN {} ELSE {i \in kept : ns[i].hasEl}]

\* A pass runs over the collection.
RunPass(kind) ==
  /\ Len(passOut) < MaxPasses
  /\ passOut' = Append(passOut,
       CASE kind = "build" -> BuildPass(nodeViews)
         [] kind = "clear" -> ClearPass(nodeViews)
         [] kind = "scan" -> ScanPass(nodeViews))
  /\ UNCHANGED <<gridIn, gridOut, nodeViews>>

\* ------------------------------------------------------------ history updates
\* The bookkeeping of a setupTabSync call and of a timer's rebuild.
TrackSetup(v) ==
  LET out == SetupOutcome(v)
      sched == IF out = "retry" THEN 1 ELSE 0
  IN epoch' = IF out \in {"early", "throw"} THEN FreshEpoch
              ELSE [FreshEpoch EXCEPT !.attempts = 1, !.scheduled = sched,
                                      !.first = out, !.own = sched]

TrackRetry ==
  LET out == BuildFileNodeMap(canvasView, hasRetriedBuildingMap).outcome
      sched == IF out = "retry" THEN 1 ELSE 0
  IN epoch' = IF retryTimers > epoch.own
                THEN [epoch EXCEPT !.tainted = TRUE,
                                   !.scheduled = @ + sched, !.own = @ + sched]
                ELSE [epoch EXCEPT !.attempts = @ + 1,
                                   !.scheduled = @ + sched,
                                   !.retry = out,
                                   !.diag = @ + (IF out = "fail" THEN 1 ELSE 0),
                                   !.own = @ - 1 + sched]

\* ------------------------------------------------------------ specification
\* No createCanvasFromOpenTabs call was made and no interaction handler set up.
CreateIdle ==
  /\ clickRef = FALSE
  /\ attachTimers = 0
  /\ handlers = {}
  /\ pc = "idle"
  /\ tabs = <<>>
  /\ caller = "none"
  /\ result = "none"
  /\ vaultFiles = <<>>
  /\ paneOpen = FALSE
  /\ elapsed = 0
  /\ waitResult = "none"
  /\ canvasData = EmptyStructure
  /\ notices = <<>>

\* The engine as constructed, no surface initialised yet.
EngineIdle ==
  /\ hasCanvas = [v \in View |-> FALSE]
  /\ nodes = [v \in View |-> <<>>]
  /\ cards = <<>>
  /\ activeTab = {}
  /\ bgOpen = {}
  /\ canvasView = 0
  /\ activeFileMap = EmptyMap
  /\ eventRef = FALSE
  /\ listeners = 0
  /\ hasRetriedBuildingMap = FALSE
  /\ retryTimers = 0
  /\ scanView = 0
  /\ lastOp = "other"
  /\ epoch = FreshEpoch

\* No auto-activation pending, nothing installed on the canvas container.
ActIdle ==
  /\ actTimers = 0
  /\ dropWired = FALSE
  /\ menuWired = FALSE

\* Default settings, no drop in flight on a canvas file that holds "{}", no
\* grid planner call made.
RestIdle ==
  /\ ActIdle
  /\ settings = DefaultSettings
  /\ disk = ObjectText(<<>>)
  /\ dropPc = "idle"
  /\ newNode = NoNode
  /\ content = ObjectText(<<>>)
  /\ updatedContent = ObjectText(<<>>)
  /\ dropNotices = <<>>
  /\ gridIn = [count |-> 0, width |-> DefaultCardWidth,
               height |-> DefaultCardHeight, spacing |-> DefaultSpacing]
  /\ gridOut = <<>>
  /\ nodeViews = <<>>
  /\ passOut = <<>>
  /\ MenuIdle

\* The synchronisation engine in its workspace: a TabSyncHandler constructed
\* with or without a TabScanHandler.
Init ==
  /\ leafView = [l \in Leaf |-> "nofile"]
  /\ activeLeaf = 0
  /\ scanWired \in BOOLEAN
  /\ EngineIdle
  /\ CreateIdle
  /\ RestIdle

Next ==
  \/ \E l \in Leaf, lv \in LeafViews :
       EnvSetLeaf(l, lv) /\ lastOp' = "other" /\ UNCHANGED <<epoch, cardVars, createVars, restVars>>
  \/ \E l \in 0..NLeaves :
       EnvSetActive(l) /\ lastOp' = "other" /\ UNCHANGED <<epoch, cardVars, createVars, restVars>>
  \/ \E v \in CanvasViews :
       EnvCanvasInit(v) /\ lastOp' = "other" /\ UNCHANGED <<epoch, cardVars, createVars, restVars>>
  \/ \E v \in CanvasViews, k \in EnvCardKinds :
       EnvAddCard(v, k) /\ lastOp' = "other" /\ UNCHANGED <<epoch, cardVars, createVars, restVars>>
  \/ \E v \in CanvasViews, i \in 1..MaxCards :
       EnvRemoveCard(v, i) /\ lastOp' = "other" /\ UNCHANGED <<epoch, cardVars, createVars, restVars>>
  \/ \E v \in View :
       /\ SetupTabSync(v)
       /\ lastOp' = IF SetupOutcome(v) \in {"early", "throw"} THEN "other" ELSE "bind"
       /\ UNCHANGED <<epoch, cardVars, createVars, restVars>>
  \/ OnActiveLeafChange /\ lastOp' = "focus" /\ UNCHANGED <<epoch, cardVars, createVars, restVars>>
  \/ RetryTimerFires /\ lastOp' = "other" /\ UNCHANGED <<epoch, cardVars, createVars, restVars>>
  \/ Cleanup /\ lastOp' = "cleanup" /\ UNCHANGED <<epoch, cardVars, createVars, restVars>>

Spec == Init /\ [][Next]_vars

\* The index rebuild and its retry timer alone: the surface changes, the
\* engine is bound, rebound and cleaned up, timers fire.  Panes play no part
\* in the rebuild, so they stay as they are.
NextRetry ==
  \/ \E v \in CanvasViews :
       EnvCanvasInit(v) /\ UNCHANGED <<lastOp, epoch, cardVars, createVars, restVars>>
  \/ \E v \in CanvasViews, k \in EnvCardKinds :
       EnvAddCard(v, k) /\ UNCHANGED <<lastOp, epoch, cardVars, createVars, restVars>>
  \/ \E v \in CanvasViews, i \in 1..MaxCards :
       EnvRemoveCard(v, i) /\ UNCHANGED <<lastOp, epoch, cardVars, createVars, restVars>>
  \/ \E v \in View :
       SetupTabSync(v) /\ TrackSetup(v) /\ UNCHANGED <<lastOp, cardVars, createVars, restVars>>
  \/ RetryTimerFires /\ TrackRetry /\ UNCHANGED <<lastOp, cardVars, createVars, restVars>>
  \/ Cleanup /\ UNCHANGED <<lastOp, epoch, cardVars, createVars, restVars>>

SpecRetry == Init /\ [][NextRetry]_vars

\* One createCanvasFromOpenTabs call (after any number of calls with nothing
\* to do) in a workspace whose panes show any documents.  The host
\* initialises the canvas of the new leaf and renders cards at any moment
\* after the file was opened; timers and the host's events fire when due.
\* The new leaf is opened in the background (active: false), so the focus
\* stays where it was.  CanvasManager constructs its TabSyncHandler without
\* a TabScanHandler.
InitCreate ==
  /\ leafView \in [Leaf -> LeafViews]
  /\ activeLeaf \in 0..NLeaves
  /\ scanWired = FALSE
  /\ EngineIdle
  /\ CreateIdle
  /\ RestIdle

NextCreate ==
  \/ CmdOpenTabsToCanvas /\ lastOp' = "cmd" /\ UNCHANGED <<epoch, restVars>>
  \/ \E batch \in Batches : CallCreate(batch) /\ lastOp' = "call" /\ UNCHANGED <<epoch, restVars>>
  \/ \E ok, leafOk \in BOOLEAN :
       VaultCreateDone(ok, leafOk) /\ lastOp' = "other" /\ UNCHANGED <<epoch, restVars>>
  \/ \E ok \in BOOLEAN : OpenFileDone(ok) /\ lastOp' = "other" /\ UNCHANGED <<epoch, restVars>>
  \/ WaitPoll /\ lastOp' = "other" /\ UNCHANGED <<epoch, restVars>>
  \/ Ready500Done /\ lastOp' = "other" /\ UNCHANGED <<epoch, restVars>>
  \/ Settle800Done /\ lastOp' = "other" /\ UNCHANGED <<epoch, restVars>>
  \/ \E ok \in BOOLEAN : VaultModifyDone(ok) /\ lastOp' = "other" /\ UNCHANGED <<epoch, restVars>>
  \/ /\ Settle600Done
     /\ lastOp' = IF SetupOutcome(CreatedView) \in {"early", "throw"}
                    THEN "other" ELSE "bind"
     /\ UNCHANGED <<epoch, restVars>>
  \/ AttachTimerFires /\ lastOp' = "other" /\ UNCHANGED <<epoch, restVars>>
  \/ OnLayoutChange /\ lastOp' = "other" /\ UNCHANGED <<epoch, restVars>>
  \/ /\ paneOpen
     /\ EnvCanvasInit(CreatedView)
     /\ lastOp' = "other" /\ UNCHANGED <<epoch, cardVars, createVars, restVars>>
  \/ \E k \in CreateCardKinds :
       EnvAddCard(CreatedView, k) /\ lastOp' = "other"
         /\ UNCHANGED <<epoch, cardVars, createVars, restVars>>

SpecCreate == InitCreate /\ [][NextCreate]_vars

\* Timers fire: a pending poll or settle of the readiness wait is run by the
\* event loop.
FairSpecCreate ==
  /\ SpecCreate
  /\ WF_vars(WaitPoll /\ lastOp' = "other" /\ UNCHANGED <<epoch, restVars>>)
  /\ WF_vars(Ready500Done /\ lastOp' = "other" /\ UNCHANGED <<epoch, restVars>>)

\* The command run after the user has set the layout sliders: one call, on
\* a host that initialises the canvas of the new leaf at any moment after
\* the file was opened and renders no card before the call ends.
InitLayout ==
  /\ leafView \in [Leaf -> LeafViews]
  /\ activeLeaf = 0
  /\ scanWired = FALSE
  /\ EngineIdle
  /\ CreateIdle
  /\ RestIdle

layoutFrame ==
  <<hostVars, surfaceVars, markVars, scanWired, engineVars, cardVars,
    createVars, dropVars, gridVars, actVars, menuVars, lastOp, epoch>>

NextLayout ==
  \/ \E v \in CardSizes :
       pc = "idle" /\ SetCardSize(v) /\ UNCHANGED layoutFrame
  \/ \E v \in CardSpacings :
       pc = "idle" /\ SetCardSpacing(v) /\ UNCHANGED layoutFrame
  \/ CmdOpenTabsToCanvas /\ lastOp' = "cmd" /\ UNCHANGED <<epoch, restVars>>
  \/ \E ok, leafOk \in BOOLEAN :
       VaultCreateDone(ok, leafOk) /\ lastOp' = "other" /\ UNCHANGED <<epoch, restVars>>
  \/ \E ok \in BOOLEAN : OpenFileDone(ok) /\ lastOp' = "other" /\ UNCHANGED <<epoch, restVars>>
  \/ WaitPoll /\ lastOp' = "other" /\ UNCHANGED <<epoch, restVars>>
  \/ Settle800Done /\ lastOp' = "other" /\ UNCHANGED <<epoch, restVars>>
  \/ \E ok \in BOOLEAN : VaultModifyDone(ok) /\ lastOp' = "other" /\ UNCHANGED <<epoch, restVars>>
  \/ Settle600Done /\ lastOp' = "other" /\ UNCHANGED <<epoch, restVars>>
  \/ AttachTimerFires /\ lastOp' = "other" /\ UNCHANGED <<epoch, restVars>>
  \/ /\ paneOpen
     /\ EnvCanvasInit(CreatedView)
     /\ lastOp' = "other" /\ UNCHANGED <<epoch, cardVars, createVars, restVars>>

SpecLayout == InitLayout /\ [][NextLayout]_vars

\* Drops on a canvas that carries the drop listener and whose file holds
\* any text, one drop in flight at a time, while the rendering surface may save the file at any moment.  The
\* first pane shows document a.
InitAppend ==
  /\ leafView = [l \in Leaf |-> IF l = 1 THEN "a" ELSE "nofile"]
  /\ activeLeaf \in 0..NLeaves
  /\ scanWired = FALSE
  /\ EngineIdle
  /\ CreateIdle
  /\ actTimers = 0
  /\ dropWired = TRUE
  /\ menuWired = FALSE
  /\ settings = DefaultSettings
  /\ disk \in FileTexts
  /\ dropPc = "idle"
  /\ newNode = NoNode
  /\ content = disk
  /\ updatedContent = disk
  /\ dropNotices = <<>>
  /\ gridIn = [count |-> 0, width |-> DefaultCardWidth,
               height |-> DefaultCardHeight, spacing |-> DefaultSpacing]
  /\ gridOut = <<>>
  /\ nodeViews = <<>>
  /\ passOut = <<>>
  /\ MenuIdle

appendFrame ==
  <<hostVars, surfaceVars, markVars, scanWired, engineVars, cardVars,
    createVars, settings, gridVars, actVars, menuVars, epoch>>

NextAppend ==
  \/ \E alt \in BOOLEAN, data \in DragData :
       Drop(alt, data) /\ lastOp' = "other" /\ UNCHANGED appendFrame
  \/ \E ok \in BOOLEAN : ReadDone(ok) /\ lastOp' = "other" /\ UNCHANGED appendFrame
  \/ \E ok \in BOOLEAN :
       /\ WriteDone(ok)
       /\ lastOp' = IF disk' # disk /\ disk # content THEN "overwrite" ELSE "other"
       /\ UNCHANGED appendFrame
  \/ SurfaceSave /\ lastOp' = "save" /\ UNCHANGED appendFrame

SpecAppend == InitAppend /\ [][NextAppend]_vars

\* The grid planner called, twice, with any arguments.
InitGrid ==
  /\ leafView = [l \in Leaf |-> "nofile"]
  /\ activeLeaf = 0
  /\ scanWired = FALSE
  /\ EngineIdle
  /\ CreateIdle
  /\ ActIdle
  /\ settings = DefaultSettings
  /\ disk = ObjectText(<<>>)
  /\ dropPc = "idle"
  /\ newNode = NoNode
  /\ content = ObjectText(<<>>)
  /\ updatedContent = ObjectText(<<>>)
  /\ dropNotices = <<>>
  /\ gridIn \in GridInputs
  /\ gridOut = <<>>
  /\ nodeViews = <<>>
  /\ passOut = <<>>
  /\ MenuIdle

gridFrame ==
  <<hostVars, surfaceVars, markVars, scanWired, engineVars, cardVars,
    createVars, settings, dropVars, actVars, menuVars, lastOp, epoch>>

NextGrid == PlanGrid /\ UNCHANGED gridFrame

SpecGrid == InitGrid /\ [][NextGrid]_vars

\* The plugin as onload assembles it, on a workspace where canvases are
\* opened: the file-open listener, the activation timer and what it sets up,
\* the settings toggles, and the user dropping text on the canvas.
InitActivate ==
  /\ leafView = [l \in Leaf |-> IF l = 1 THEN "a" ELSE "nofile"]
  /\ activeLeaf = 0
  /\ scanWired = FALSE
  /\ EngineIdle
  /\ CreateIdle
  /\ RestIdle

activateFrame == <<createVars, dropVars, gridVars, menuVars, epoch>>

NextActivate ==
  \/ /\ ToggleAutoActivate /\ lastOp' = "other"
     /\ UNCHANGED <<hostVars, surfaceVars, markVars, scanWired, engineVars,
                    cardVars, actVars, activateFrame>>
  \/ /\ ToggleBatchOperations /\ lastOp' = "other"
     /\ UNCHANGED <<hostVars, surfaceVars, markVars, scanWired, engineVars,
                    cardVars, actVars, activateFrame>>
  \/ \E v \in CanvasViews :
       EnvCanvasInit(v) /\ lastOp' = "other"
         /\ UNCHANGED <<cardVars, settings, actVars, activateFrame>>
  \/ \E v \in CanvasViews, k \in EnvCardKinds :
       EnvAddCard(v, k) /\ lastOp' = "other"
         /\ UNCHANGED <<cardVars, settings, actVars, activateFrame>>
  \/ \E isCanvas, leafFound \in BOOLEAN, v \in View :
       /\ OnFileOpen(isCanvas, v, leafFound)
       /\ lastOp' = IF isCanvas THEN "fileopen" ELSE "other"
       /\ UNCHANGED <<hostVars, surfaceVars, markVars, scanWired, engineVars,
                      cardVars, settings, activateFrame>>
  \/ \E v \in CanvasViews :
       /\ ActivationTimerFires(v)
       /\ lastOp' = "activate"
       /\ UNCHANGED <<settings, activateFrame>>
  \/ AttachTimerFires /\ lastOp' = "other" /\ UNCHANGED <<epoch, restVars>>
  \/ OnLayoutChange /\ lastOp' = "layout" /\ UNCHANGED <<epoch, restVars>>
  \/ \E alt \in BOOLEAN, data \in DragData :
       /\ UserDrop(alt, data)
       /\ lastOp' = IF alt /\ data.dotted /\ data.path \in Paths THEN "altdrop" ELSE "drop"
       /\ UNCHANGED <<hostVars, surfaceVars, markVars, scanWired, engineVars,
                      cardVars, createVars, settings, gridVars, actVars, menuVars, epoch>>

SpecActivate == InitActivate /\ [][NextActivate]_vars

\* The two operations the user starts: the 'Open Tabs to Canvas' command
\* with a document open, and drops on a canvas that carries the drop
\* listener.  Every file operation may fail; lastOp = "iofail" marks the
\* step in which one did.
InitUserOps ==
  /\ leafView = [l \in Leaf |-> IF l = 1 THEN "a" ELSE "nofile"]
  /\ activeLeaf \in 0..NLeaves
  /\ scanWired = FALSE
  /\ EngineIdle
  /\ CreateIdle
  /\ actTimers = 0
  /\ dropWired = TRUE
  /\ menuWired = FALSE
  /\ settings = DefaultSettings
  /\ disk \in {ObjectText(<<>>), Garbage}
  /\ dropPc = "idle"
  /\ newNode = NoNode
  /\ content = disk
  /\ updatedContent = disk
  /\ dropNotices = <<>>
  /\ gridIn = [count |-> 0, width |-> DefaultCardWidth,
               height |-> DefaultCardHeight, spacing |-> DefaultSpacing]
  /\ gridOut = <<>>
  /\ nodeViews = <<>>
  /\ passOut = <<>>
  /\ MenuIdle

NextUserOps ==
  \/ CmdOpenTabsToCanvas /\ lastOp' = "cmd" /\ UNCHANGED <<epoch, restVars>>
  \/ \E ok, leafOk \in BOOLEAN :
       /\ VaultCreateDone(ok, leafOk)
       /\ lastOp' = IF ok /\ leafOk THEN "other" ELSE "iofail"
       /\ UNCHANGED <<epoch, restVars>>
  \/ \E ok \in BOOLEAN :
       /\ OpenFileDone(ok)
       /\ lastOp' = IF ok THEN "other" ELSE "iofail"
       /\ UNCHANGED <<epoch, restVars>>
  \/ WaitPoll /\ lastOp' = "other" /\ UNCHANGED <<epoch, restVars>>
  \/ Settle800Done /\ lastOp' = "other" /\ UNCHANGED <<epoch, restVars>>
  \/ \E ok \in BOOLEAN :
       /\ VaultModifyDone(ok)
       /\ lastOp' = IF ok THEN "other" ELSE "iofail"
       /\ UNCHANGED <<epoch, restVars>>
  \/ Settle600Done /\ lastOp' = "other" /\ UNCHANGED <<epoch, restVars>>
  \/ /\ paneOpen
     /\ EnvCanvasInit(CreatedView)
     /\ lastOp' = "other" /\ UNCHANGED <<epoch, cardVars, createVars, restVars>>
  \/ \E alt \in BOOLEAN, data \in DragData :
       Drop(alt, data) /\ lastOp' = "other" /\ UNCHANGED appendFrame
  \/ \E ok \in BOOLEAN :
       /\ ReadDone(ok)
       /\ lastOp' = IF ok THEN "other" ELSE "iofail"
       /\ UNCHANGED appendFrame
  \/ \E ok \in BOOLEAN :
       /\ WriteDone(ok)
       /\ lastOp' = IF ok THEN "other" ELSE "iofail"
       /\ UNCHANGED appendFrame

SpecUserOps == InitUserOps /\ [][NextUserOps]_vars

\* The settings tab: the plugin loaded its settings (no data saved yet), the
\* user edits the fields in any order, and the plugin is reloaded at any
\* moment, with the saved data or after the data file was removed.
settingsFrame ==
  <<hostVars, surfaceVars, markVars, scanWired, engineVars, cardVars,
    createVars, dropVars, gridVars, actVars, menuVars, epoch>>

NextSettings ==
  \/ \E value \in FolderTexts :
       EditFolder(value) /\ lastOp' = "folder" /\ UNCHANGED settingsFrame
  \/ \E v \in CardSizes :
       SetCardSize(v) /\ lastOp' = "other" /\ UNCHANGED settingsFrame
  \/ \E v \in CardSpacings :
       SetCardSpacing(v) /\ lastOp' = "other" /\ UNCHANGED settingsFrame
  \/ ToggleAutoActivate /\ lastOp' = "other" /\ UNCHANGED settingsFrame
  \/ ToggleBatchOperations /\ lastOp' = "other" /\ UNCHANGED settingsFrame
  \/ \E data \in {<<>>, settings} :
       LoadSettings(data) /\ lastOp' = "load" /\ UNCHANGED settingsFrame

SpecSettings == InitLayout /\ [][NextSettings]_vars

\* The index rebuild as a function of the surface: a canvas with up to
\* IndexCards cards of any shape of file reference (a string, also the
\* empty string; a file object; none), to which the engine is bound and on
\* which its retry timer fires.
IndexCardKinds == CardKinds \cup {[shape |-> "str", path |-> NoPath]}

InitIndex ==
  /\ leafView = [l \in Leaf |-> "nofile"]
  /\ activeLeaf = 0
  /\ scanWired = TRUE
  /\ hasCanvas = [v \in View |-> v \in CanvasViews]
  /\ cards \in UNION {[1..n -> IndexCardKinds] : n \in 0..IndexCards}
  /\ nodes = [v \in View |-> IF v \in CanvasViews
                               THEN [i \in 1..Len(cards) |-> i] ELSE <<>>]
  /\ activeTab = {}
  /\ bgOpen = {}
  /\ canvasView = 0
  /\ activeFileMap = EmptyMap
  /\ eventRef = FALSE
  /\ listeners = 0
  /\ hasRetriedBuildingMap = FALSE
  /\ retryTimers = 0
  /\ scanView = 0
  /\ lastOp = "other"
  /\ epoch = FreshEpoch
  /\ CreateIdle
  /\ RestIdle

NextIndex ==
  \/ \E v \in CanvasViews :
       /\ SetupTabSync(v)
       /\ lastOp' = "bind"
       /\ UNCHANGED <<epoch, cardVars, createVars, restVars>>
  \/ RetryTimerFires /\ lastOp' = "rebuild"
       /\ UNCHANGED <<epoch, cardVars, createVars, restVars>>

SpecIndex == InitIndex /\ [][NextIndex]_vars

\* One engine and two canvas surfaces: both views are canvas views whose
\* canvas the host has initialised; file cards are rendered on either, panes
\* are navigated and focused, the engine is bound to one surface and then to
\* the other, and the host's focus events are delivered.
InitRebind ==
  /\ leafView = [l \in Leaf |-> "nofile"]
  /\ activeLeaf = 0
  /\ scanWired = TRUE
  /\ hasCanvas = [v \in View |-> TRUE]
  /\ nodes = [v \in View |-> <<>>]
  /\ cards = <<>>
  /\ activeTab = {}
  /\ bgOpen = {}
  /\ canvasView = 0
  /\ activeFileMap = EmptyMap
  /\ eventRef = FALSE
  /\ listeners = 0
  /\ hasRetriedBuildingMap = FALSE
  /\ retryTimers = 0
  /\ scanView = 0
  /\ lastOp = "other"
  /\ epoch = FreshEpoch
  /\ CreateIdle
  /\ RestIdle

NextRebind ==
  \/ \E l \in Leaf, lv \in LeafViews :
       EnvSetLeaf(l, lv) /\ lastOp' = "other" /\ UNCHANGED <<epoch, cardVars, createVars, restVars>>
  \/ \E l \in 0..NLeaves :
       EnvSetActive(l) /\ lastOp' = "other" /\ UNCHANGED <<epoch, cardVars, createVars, restVars>>
  \/ \E v \in View, k \in {c \in EnvCardKinds : c.shape = "obj"} :
       EnvAddCard(v, k) /\ lastOp' = "other" /\ UNCHANGED <<epoch, cardVars, createVars, restVars>>
  \/ \E v \in View :
       /\ SetupTabSync(v)
       /\ lastOp' = "bind"
       /\ UNCHANGED <<epoch, cardVars, createVars, restVars>>
  \/ OnActiveLeafChange /\ lastOp' = "focus" /\ UNCHANGED <<epoch, cardVars, createVars, restVars>>

SpecRebind == InitRebind /\ [][NextRebind]_vars

\* The per-card passes as functions of the collection they walk: any
\* collection of up to IndexCards entries, the passes run in any order.
InitPass ==
  /\ leafView = [l \in Leaf |-> "nofile"]
  /\ activeLeaf = 0
  /\ scanWired = TRUE
  /\ EngineIdle
  /\ CreateIdle
  /\ ActIdle
  /\ settings = DefaultSettings
  /\ disk = ObjectText(<<>>)
  /\ dropPc = "idle"
  /\ newNode = NoNode
  /\ content = ObjectText(<<>>)
  /\ updatedContent = ObjectText(<<>>)
  /\ dropNotices = <<>>
  /\ gridIn = [count |-> 0, width |-> DefaultCardWidth,
               height |-> DefaultCardHeight, spacing |-> DefaultSpacing]
  /\ gridOut = <<>>
  /\ nodeViews \in UNION {[1..n -> NodeViewKinds] : n \in 0..IndexCards}
  /\ passOut = <<>>
  /\ MenuIdle

NextPass ==
  \E kind \in {"build", "clear", "scan"} : RunPass(kind) /\ UNCHANGED gridFrame

SpecPass == InitPass /\ [][NextPass]_vars

\* The context menu's batch open on a workspace that shows no document
\* twice: the user invokes it with the files of any cards, again and again;
\* every openFile may succeed or fail.
InitMenu ==
  /\ leafView = [l \in Leaf |-> "nofile"]
  /\ activeLeaf = 0
  /\ scanWired = FALSE
  /\ EngineIdle
  /\ CreateIdle
  /\ ActIdle
  /\ settings = DefaultSettings
  /\ disk = ObjectText(<<>>)
  /\ dropPc = "idle"
  /\ newNode = NoNode
  /\ content = ObjectText(<<>>)
  /\ updatedContent = ObjectText(<<>>)
  /\ dropNotices = <<>>
  /\ gridIn = [count |-> 0, width |-> DefaultCardWidth,
               height |-> DefaultCardHeight, spacing |-> DefaultSpacing]
  /\ gridOut = <<>>
  /\ nodeViews = <<>>
  /\ passOut = <<>>
  /\ panes \in {<<>>,
                <<[type |-> "markdown", path |-> "a"]>>,
                <<[type |-> "pdf", path |-> "p"]>>,
                <<[type |-> "markdown", path |-> "a"], [type |-> "pdf", path |-> "p"]>>,
                <<[type |-> "empty", path |-> NoPath]>>}
  /\ openList = <<>>
  /\ openAt = 0
  /\ openPc = "idle"
  /\ successCount = 0
  /\ openErrors = {}

NextMenu ==
  \/ \E list \in UNION {[1..n -> MenuFiles] : n \in 1..MaxOpenList} :
       /\ OpenFilesInBackground(list)
       /\ lastOp' = "batch"
       /\ UNCHANGED <<hostVars, surfaceVars, markVars, scanWired, engineVars, cardVars,
                      createVars, settings, dropVars, gridVars, actVars, epoch>>
  \/ \E ok \in BOOLEAN :
       /\ BatchOpenFileDone(ok)
       /\ lastOp' = IF ok THEN "opened" ELSE "openfail"
       /\ UNCHANGED <<hostVars, surfaceVars, markVars, scanWired, engineVars, cardVars,
                      createVars, settings, dropVars, gridVars, actVars, epoch>>

SpecMenu == InitMenu /\ [][NextMenu]_vars

\* ------------------------------------------------------------ claims
\* The cards of the surface the engine holds.
SurfaceCards ==
  IF canvasView # 0 /\ hasCanvas[canvasView] THEN Range(nodes[canvasView]) ELSE {}

\* The engine is bound: it holds a canvas surface and its subscription is live.
Bound == canvasView # 0 /\ hasCanvas[canvasView] /\ eventRef

\* The path of the active pane's document, NoPath when there is no active
\* pane or it has no document.
ActivePath ==
  IF activeLeaf # 0 /\ leafView[activeLeaf] \in Paths
    THEN leafView[activeLeaf] ELSE NoPath

\* C1: while the engine is bound to a canvas surface, at most one card of
\* that surface carries the active highlight (is-active-tab).
C1_AtMostOneHighlight ==
  Bound => Cardinality(activeTab \cap SurfaceCards) <= 1

\* C1 witness: a focus change was processed on a bound surface that shows two
\* cards, and one of them is highlighted.
C1_Witness ==
  /\ Bound /\ lastOp = "focus"
  /\ Cardinality(SurfaceCards) = 2
  /\ Cardinality(activeTab \cap SurfaceCards) = 1

C2_WitnessNone ==
  /\ Bound /\ lastOp = "focus" /\ ActivePath # NoPath
  /\ activeFileMap[ActivePath] = NoCard
  /\ SurfaceCards # {} /\ activeTab = {}

\* C3 (as claimed): after a background scan (at bind time and on every
\* focus-change event) every card of the bound surface with an extractable
\* path is marked background-open iff its document is open in some pane.
C3_EveryCardRederived ==
  (Bound /\ lastOp \in {"bind", "focus"}) =>
    \A c \in SurfaceCards :
      ScanPath(c) # NoPath => (c \in bgOpen <=> ScanPath(c) \in OpenPaths)

\* What the scan does establish: the last card of each path is re-derived.
C3_LastCardRederived ==
  (Bound /\ scanView = canvasView /\ lastOp \in {"bind", "focus"}) =>
    \A p \in Paths :
      LET c == CanvasFileNodes(scanView)[p]
      IN c # NoCard => (c \in bgOpen <=> p \in OpenPaths)

\* C4 (as claimed): a cleanup leaves no active-highlight mark and no
\* background-open mark on a card of the surface that was bound, and leaves
\* the File-Node Index empty.
C4_CleanupClearsAll ==
  [][lastOp' = "cleanup" =>
       /\ activeFileMap' = EmptyMap
       /\ \A c \in SurfaceCards : c \notin activeTab' /\ c \notin bgOpen']_vars

\* What cleanup does establish: the index and the active highlights are gone.
C4_CleanupClearsActive ==
  [][lastOp' = "cleanup" =>
       /\ activeFileMap' = EmptyMap
       /\ \A c \in SurfaceCards : c \notin activeTab']_vars

\* C5: within one bind (no timer of an earlier bind fires into it), the first
\* rebuild starts a retry timer iff it finds no valid entry on a non-empty
\* surface; at most one timer is started and at most two rebuilds run; a retry
\* that again finds no valid entry on a non-empty surface logs the
\* diagnostic once and starts nothing.
C5_RetryOnce ==
  ~epoch.tainted =>
    /\ epoch.scheduled <= 1
    /\ epoch.attempts <= 2
    /\ epoch.attempts >= 1 => (epoch.scheduled = 1 <=> epoch.first = "retry")
    /\ epoch.attempts = 2 => epoch.first = "retry"
    /\ epoch.retry = "fail" <=> epoch.diag = 1
    /\ epoch.diag <= 1
    /\ epoch.retry # "retry"
    /\ (epoch.attempts = 2 \/ epoch.first # "retry") => epoch.own = 0

\* C5 witness: the retry ran, found no valid entry again and gave up.
C5_Witness ==
  /\ ~epoch.tainted /\ epoch.attempts = 2 /\ epoch.first = "retry"
  /\ epoch.retry = "fail" /\ epoch.diag = 1 /\ retryTimers = 0

\* The Notice of the command when no document is open.
NoTabsNotice == [text |-> "No open tabs to create a canvas from.", n |-> 0]

\* Every tab of the batch has a document and no two share a path.
DistinctDocuments(batch) ==
  /\ \A i \in DOMAIN batch : batch[i].hasFile /\ batch[i].path \in Paths
  /\ \A i, j \in DOMAIN batch : batch[i].path = batch[j].path => i = j

\* C6 (as claimed): once the readiness wait of the created surface has timed
\* out, nothing is activated for it: no File-Node Index is built, no
\* focus-change subscription is registered and no card interaction listener
\* is attached or scheduled.
C6_NoPartialActivation ==
  waitResult = "timeout" =>
    /\ activeFileMap = EmptyMap
    /\ ~eventRef
    /\ ~clickRef /\ attachTimers = 0 /\ handlers = {}

\* C7 (as claimed): the readiness wait returns true only if, when it returns,
\* the surface exposes a canvas whose node collection is non-empty.
C7_ReadyNeedsNodes ==
  [][(waitResult = "none" /\ waitResult' = "ready") =>
       (hasCanvas'[CreatedView] /\ Len(nodes'[CreatedView]) > 0)]_vars

\* C7 (amended): the readiness wait returns true only if a poll before the
\* ceiling found the canvas object on the surface; the node collection may be
\* empty.  After a poll that found nodes it returns only once the settle
\* delay has passed.
C7_ReadyNeedsCanvas ==
  [][(waitResult = "none" /\ waitResult' = "ready") =>
       /\ hasCanvas[CreatedView] /\ elapsed < WaitCeiling
       /\ Len(nodes[CreatedView]) > 0 => pc = "ready500"]_vars

\* C7 witness: the wait returned true on a surface whose canvas has no card.
C7_Witness ==
  /\ pc = "settle800" /\ waitResult = "ready"
  /\ hasCanvas[CreatedView] /\ Len(nodes[CreatedView]) = 0

\* C8: the readiness wait always ends, also on a surface that never becomes
\* ready; it returns false only when the ceiling has elapsed, and then
\* nothing is thrown: the call goes on.
C8_WaitTerminates ==
  /\ (pc = "waiting") ~> (pc \notin {"waiting", "ready500"})
  /\ [][(waitResult = "none" /\ waitResult' = "timeout") =>
          /\ elapsed >= WaitCeiling
          /\ pc' = "settle800" /\ result' = "none"]_vars

\* C8 witness: the wait returned false on a surface that never got a canvas.
C8_Witness ==
  /\ waitResult = "timeout" /\ ~hasCanvas[CreatedView]
  /\ elapsed = WaitCeiling /\ pc = "settle800"

\* C9: createCanvasFromOpenTabs with an empty batch returns null, creates and
\* writes no file, opens no pane and shows nothing; the command with no open
\* document creates no file and shows only its informational notice.
C9_EmptyBatchNoEffect ==
  [][/\ (lastOp' = "call" /\ tabs' = <<>>) =>
          /\ result' = "null" /\ pc' = "idle"
          /\ vaultFiles' = <<>> /\ ~paneOpen'
          /\ notices' = notices
     /\ (lastOp' = "cmd" /\ GetAllOpenTabs = <<>>) =>
          /\ pc' = "idle"
          /\ vaultFiles' = <<>> /\ ~paneOpen'
          /\ notices' = Append(notices, NoTabsNotice)]_vars

\* C9 witness: the command ran with no open document, then the operation was
\* called with the empty batch.
C9_Witness ==
  /\ lastOp = "call" /\ tabs = <<>> /\ result = "null"
  /\ notices = <<NoTabsNotice>> /\ vaultFiles = <<>>

\* C10: for a batch of n documents with pairwise distinct paths, the canvas
\* document written has exactly n nodes, all of type "file", whose file
\* fields are the input paths in input order, with no edges and the default
\* metadata.
C10_WrittenDocument ==
  (pc \in {"settle600", "done"} /\ DistinctDocuments(tabs)) =>
    /\ Len(vaultFiles) = 1
    /\ LET doc == vaultFiles[1]
       IN /\ Len(doc.nodes) = Len(tabs)
          /\ \A i \in DOMAIN tabs :
               doc.nodes[i].type = "file" /\ doc.nodes[i].file = tabs[i].path
          /\ doc.edges = <<>>
          /\ doc.metadata = [version |-> "1.0", frontmatter |-> <<>>]

\* C10 witness: a call with two distinct documents resolved.
C10_Witness ==
  /\ pc = "done" /\ Len(tabs) = 2 /\ DistinctDocuments(tabs)
  /\ Len(vaultFiles[1].nodes) = 2

\* C11 (as claimed): the cards of a canvas created by the 'Open Tabs to
\* Canvas' command have width and height equal to the configured cardSize
\* and lie on the grid planned with the configured cardSize and cardSpacing.
C11_CardsFollowSettings ==
  (caller = "command" /\ pc \in {"settle600", "done"}) =>
    \A i \in DOMAIN vaultFiles[1].nodes :
      LET node == vaultFiles[1].nodes[i]
          planned == CalculateMosaicPositions(Len(tabs), settings.cardSize,
                       settings.cardSize, settings.cardSpacing)
      IN /\ node.width = settings.cardSize /\ node.height = settings.cardSize
         /\ node.x = planned[i].x /\ node.y = planned[i].y

\* What the command does establish: the cards have the built-in size and
\* spacing, whatever the settings are.
C11_CardsUseBuiltIns ==
  (caller = "command" /\ pc \in {"settle600", "done"}) =>
    \A i \in DOMAIN vaultFiles[1].nodes :
      LET node == vaultFiles[1].nodes[i]
          planned == CalculateMosaicPositions(Len(tabs), DefaultCardWidth,
                       DefaultCardHeight, DefaultSpacing)
      IN /\ node.width = NodeWidth /\ node.height = NodeHeight
         /\ node.x = planned[i].x /\ node.y = planned[i].y

\* A canvas document with a nodes array, an edges array and a metadata
\* object holding version and frontmatter.
StructurallyComplete(doc) ==
  /\ {"nodes", "edges", "metadata"} \subseteq DOMAIN doc
  /\ DOMAIN doc.nodes = 1..Len(doc.nodes)
  /\ DOMAIN doc.edges = 1..Len(doc.edges)
  /\ {"version", "frontmatter"} \subseteq DOMAIN doc.metadata

\* C12: during create-from-batch the file, from its creation onward, always
\* holds a structurally complete canvas document, and the pane that shows it
\* is open only when such a document is on disk, also after a later step
\* has failed.
C12_CompleteOnDisk ==
  /\ \A i \in DOMAIN vaultFiles : StructurallyComplete(vaultFiles[i])
  /\ paneOpen => Len(vaultFiles) = 1
  /\ pc \in {"opening", "waiting", "ready500", "settle800", "modifying",
             "settle600", "done"} => Len(vaultFiles) = 1

\* C12 witness: the pane is open on the file and the populated write has
\* failed: the file still holds the empty, complete document.
C12_Witness ==
  /\ pc = "failed" /\ paneOpen /\ waitResult # "none"
  /\ vaultFiles = <<EmptyStructure>> /\ Len(tabs) > 0

\* C13 (as claimed): in create-from-batch the populated write is made only
\* after the readiness wait has found the surface ready, and the file handle
\* is returned only after the settle delay that follows the write; the pane
\* is opened only after the empty file was created.
C13_OrderKept ==
  /\ pc \in {"modifying", "settle600", "done"} => waitResult = "ready"
  /\ result = "file" => (pc = "done" /\ vaultFiles = <<canvasData>>)
  /\ paneOpen => Len(vaultFiles) = 1

\* What the call does establish: the populated write is made after the wait
\* has returned, ready or not; the rest of the order is kept.
C13_OrderAfterWaitReturned ==
  /\ pc \in {"modifying", "settle600", "done"} => waitResult \in {"ready", "timeout"}
  /\ result = "file" => (pc = "done" /\ vaultFiles = <<canvasData>>)
  /\ paneOpen => Len(vaultFiles) = 1

\* C14 (as claimed): createCanvasFromOpenTabs on a non-empty batch rejects
\* only if file creation or the pane-open step failed; once the file is
\* created and the pane is open, the call settles by returning the file.
C14_RejectsOnlyOnCreateOrOpenFailure ==
  /\ (Len(tabs) > 0 /\ result = "rejected") => ~paneOpen
  /\ result = "file" => (paneOpen /\ Len(vaultFiles) = 1)

\* What the call does establish: it returns the file only when the surface
\* had no canvas at step 7, because setupTabSync on the manager's handler,
\* built without a scan handler, throws as soon as the canvas is there.
C14_ReturnsOnlyWithoutCanvas ==
  [][(result' = "file" /\ result # "file") => ~hasCanvas[CreatedView]]_vars

\* C14 (the claim's case of a call whose create, pane-open and populated
\* write have all succeeded): a call that has reached the settle delay after
\* the write does not reject.
C14_NoRejectAfterWrite ==
  [][pc = "settle600" => result' # "rejected"]_vars

\* The file read has no member k: the key is not there, or holds null.
NoMember(ms, k) == \A i \in DOMAIN ms : ms[i].key = k => ms[i].val.t = "null"

\* The keys of a member sequence, in order.
KeysOf(ms) == [i \in DOMAIN ms |-> ms[i].key]

\* The node entries of a member sequence; none when nodes is missing or null.
NodeItems(ms) == IF NoMember(ms, "nodes") THEN <<>> ELSE GetKey(ms, "nodes").items

\* Every member read, other than nodes and a null metadata, is written with
\* the value it had.
ValuesKept(old, new) ==
  \A i \in DOMAIN old :
    (old[i].key # "nodes" /\ ~(old[i].key = "metadata" /\ old[i].val.t = "null"))
      => (HasKey(new, old[i].key) /\ GetKey(new, old[i].key) = old[i].val)

\* The members read appear in the text written in the order they were read.
OrderKept(old, new) ==
  LET WasRead(m) == HasKey(old, m.key)
  IN KeysOf(SelectSeq(new, WasRead)) = KeysOf(old)

\* The text written holds the nodes read, in order, then the new card.
NodesAppended(old, new, node) ==
  /\ HasKey(new, "nodes")
  /\ GetKey(new, "nodes") = Arr(NodeItems(old) \o <<NodeToken(node)>>)

\* C15 (as claimed): when addNodeToCanvas writes back a canvas file (an
\* object) it has read, every node, edge and other top-level key read is
\* written with the same value and in the same order, and the new card is the
\* last element of nodes.
C15_AppendPreservesFile ==
  (dropPc = "writing" /\ content.kind = "object") =>
    /\ updatedContent.kind = "object"
    /\ ValuesKept(content.members, updatedContent.members)
    /\ OrderKept(content.members, updatedContent.members)
    /\ NodesAppended(content.members, updatedContent.members, newNode)

\* What the append does establish: values are kept, the nodes read stay in
\* order before the new card, and the named keys keep their relative order;
\* only a key that is an array index may move.
C15_AppendPreservesValues ==
  (dropPc = "writing" /\ content.kind = "object") =>
    /\ updatedContent.kind = "object"
    /\ ValuesKept(content.members, updatedContent.members)
    /\ OrderKept(SelectSeq(content.members, IsNameMember),
                 SelectSeq(updatedContent.members, IsNameMember))
    /\ NodesAppended(content.members, updatedContent.members, newNode)

\* C16: when addNodeToCanvas writes back a canvas file (an object) it has
\* read, the metadata written is {version: "1.0", frontmatter: {}} if the
\* file had no metadata (missing or null) and is the metadata read otherwise,
\* and a file without nodes gets a nodes array holding just the new card.
C16_MetadataDefaultedIffAbsent ==
  (dropPc = "writing" /\ content.kind = "object") =>
    LET old == content.members
        new == updatedContent.members
    IN /\ HasKey(new, "metadata")
       /\ HasKey(new, "nodes")
       /\ NoMember(old, "metadata") => GetKey(new, "metadata") = DefaultMetadataVal
       /\ ~NoMember(old, "metadata") => GetKey(new, "metadata") = GetKey(old, "metadata")
       /\ NoMember(old, "nodes") => GetKey(new, "nodes") = Arr(<<NodeToken(newNode)>>)

\* A file without metadata and without nodes has been read and the text to
\* write holds both.
C16_Witness ==
  /\ dropPc = "writing"
  /\ content.kind = "object"
  /\ ~HasKey(content.members, "metadata")
  /\ ~HasKey(content.members, "nodes")
  /\ HasKey(content.members, "edges")
  /\ GetKey(updatedContent.members, "metadata") = DefaultMetadataVal
  /\ GetKey(updatedContent.members, "nodes") = Arr(<<"card a">>)

\* A file with a metadata of its own has been read and the text to write
\* holds that metadata.
C16_WitnessKept ==
  /\ dropPc = "writing"
  /\ content.kind = "object"
  /\ HasKey(content.members, "metadata")
  /\ GetKey(content.members, "metadata") = Obj(<<"version 2.0">>)
  /\ GetKey(updatedContent.members, "metadata") = Obj(<<"version 2.0">>)

\* nodes of a member sequence is there and is neither null nor an array.
NodesUnusable(ms) ==
  \E i \in DOMAIN ms : ms[i].key = "nodes" /\ ms[i].val.t \notin {"array", "null"}

\* A text that cannot take a card: it is not JSON, or not an object, or its
\* nodes cannot be pushed to.
Malformed(text) == text.kind # "object" \/ NodesUnusable(text.members)

\* The step that ends the read of an append reads text and ends the append
\* with the error Notice, without a write.
ReadFails(text) ==
  (dropPc = "reading" /\ dropPc' # "reading" /\ content' = text) =>
    /\ dropPc' = "idle"
    /\ disk' = disk
    /\ dropNotices' = Append(dropNotices, "Error adding file to canvas")

\* C17 (as claimed): an append that reads a text it cannot parse, or that
\* lacks the shape needed to append, performs no write, leaves the file as
\* it was and shows the error Notice.
C17_MalformedNotWritten ==
  [][Malformed(disk) => ReadFails(disk)]_vars

\* What the append does establish: the same for a text that is not JSON, is
\* null, or is an object whose nodes cannot be pushed to; a top-level array
\* is taken for a canvas.
C17_RejectedNotWritten ==
  [][(Malformed(disk) /\ disk.kind # "array") => ReadFails(disk)]_vars

\* C17 (a case of the claim): an append that has read a top-level array does
\* not end with the success Notice.
C17_NoSuccessNoticeForArray ==
  ~(/\ dropPc = "idle"
    /\ content.kind = "array"
    /\ disk = ArrayText
    /\ Len(dropNotices) > 0
    /\ dropNotices[Len(dropNotices)] = "Added file to canvas")

\* C18: the append is an unlocked read-modify-write.  The text it writes is
\* computed from the text it read alone, and a write that succeeds leaves
\* exactly that text in the file whatever the file held by then: a save of
\* the rendering surface that landed after the read is not in the file.
C18_LastWriterWins ==
  /\ [](dropPc = "writing" => updatedContent = PushNode(content, newNode).text)
  /\ [][(dropPc = "writing" /\ dropNotices' = Append(dropNotices, "Added file to canvas"))
          => disk' = updatedContent]_vars
  /\ [](lastOp = "overwrite" =>
          \A i \in DOMAIN NodeItems(disk.members) :
            NodeItems(disk.members)[i] # "surface card")

\* The surface's card, saved between the append's read and its write, is not
\* in the file after the append has ended with the success Notice.
C18_Witness ==
  /\ lastOp = "overwrite"
  /\ dropPc = "idle"
  /\ dropNotices[Len(dropNotices)] = "Added file to canvas"
  /\ disk = updatedContent
  /\ NodeItems(content.members) = <<"card a", "group g">>
  /\ NodeItems(disk.members) = <<"card a", "group g", "card a">>

\* The surface has saved its card while the append is between its read and
\* its write.
C18_WitnessWindow ==
  /\ lastOp = "save"
  /\ dropPc = "writing"
  /\ disk # content
  /\ NodeItems(disk.members) = NodeItems(content.members) \o <<"surface card">>

\* The least c with c * c >= n.
Columns(n) == CHOOSE c \in 0..n : c * c >= n /\ \A d \in 0..n : d * d >= n => c <= d

\* C19: every result of the grid planner has, at 0-based index i, the
\* position x = (i mod c) * (width + spacing), y = floor(i / c) * (height +
\* spacing) with c = ceil(sqrt(count)); for count 5, width 250, height 250,
\* spacing 50 it is (0,0), (300,0), (600,0), (0,300), (300,300).
C19_GridFormula ==
  \A j \in DOMAIN gridOut :
    /\ DOMAIN gridOut[j] = 1..gridIn.count
    /\ \A k \in DOMAIN gridOut[j] :
         /\ gridOut[j][k].x = ((k - 1) % Columns(gridIn.count)) * (gridIn.width + gridIn.spacing)
         /\ gridOut[j][k].y = ((k - 1) \div Columns(gridIn.count)) * (gridIn.height + gridIn.spacing)
    /\ gridIn = [count |-> 5, width |-> 250, height |-> 250, spacing |-> 50]
         => gridOut[j] = <<[x |-> 0, y |-> 0], [x |-> 300, y |-> 0], [x |-> 600, y |-> 0],
                           [x |-> 0, y |-> 300], [x |-> 300, y |-> 300]>>

\* The planner has been called for five cards of 250 by 250 spaced by 50.
C19_Witness ==
  /\ gridIn = [count |-> 5, width |-> 250, height |-> 250, spacing |-> 50]
  /\ Len(gridOut) >= 1
  /\ gridOut[1][3] = [x |-> 600, y |-> 0]
  /\ gridOut[1][4] = [x |-> 0, y |-> 300]

C21_NoAttachWhileOff ==
  [][(~settings.autoActivateOnAllCanvases /\ lastOp' \in {"fileopen", "layout"}) =>
       /\ actTimers' = actTimers
       /\ handlers' = handlers
       /\ clickRef' = clickRef
       /\ eventRef' = eventRef]_vars

\* What the plugin does establish: the file-open listener itself starts an
\* activation only with the setting on, and changes nothing with it off.
C21_FileOpenGuarded ==
  [][lastOp' = "fileopen" =>
       /\ actTimers' # actTimers => settings.autoActivateOnAllCanvases
       /\ handlers' = handlers /\ clickRef' = clickRef /\ eventRef' = eventRef]_vars

\* The Notices added by a step: the entries of new after those of old.
Added(old, new) == SubSeq(new, Len(old) + 1, Len(new))

\* C22: the step in which a file creation, pane open, read or write of the
\* command or of an append by drop fails shows a failure Notice and no
\* success Notice, and a command that has failed has shown no success Notice.
C22_FailureSurfaced ==
  /\ [][(lastOp' = "iofail" /\ pc' # pc) =>
          /\ Len(notices') > Len(notices)
          /\ notices'[Len(notices')].text = "Failed to create canvas. Check console for details."
          /\ \A i \in DOMAIN Added(notices, notices') :
               Added(notices, notices')[i].text # "Canvas created with N tabs!"
          /\ dropNotices' = dropNotices]_vars
  /\ [][(lastOp' = "iofail" /\ dropPc' # dropPc) =>
          /\ dropNotices' = Append(dropNotices, "Error adding file to canvas")
          /\ notices' = notices]_vars
  /\ [](pc = "failed" =>
          \A i \in DOMAIN notices : notices[i].text # "Canvas created with N tabs!")

\* The populated write of the command has failed after the file was created
\* and opened, and the failure Notice is the last one shown.
C22_Witness ==
  /\ lastOp = "iofail"
  /\ pc = "failed"
  /\ paneOpen
  /\ vaultFiles = <<EmptyStructure>>
  /\ notices[Len(notices)].text = "Failed to create canvas. Check console for details."

\* The write of an append has failed and the error Notice is the last one
\* shown.
C22_WitnessDrop ==
  /\ lastOp = "iofail"
  /\ dropPc = "idle"
  /\ updatedContent # disk
  /\ content = disk
  /\ dropNotices[Len(dropNotices)] = "Error adding file to canvas"


\* C23: when the readiness wait of the 'Open Tabs to Canvas' command timed
\* out, the settled command has shown the failure notice and not the success
\* notice.
C23_TimeoutShowsFailure ==
  (caller = "command" /\ waitResult = "timeout" /\ pc \in {"done", "failed"}) =>
     /\ \E i \in DOMAIN notices :
          notices[i].text = "Failed to create canvas. Check console for details."
     /\ \A i \in DOMAIN notices : notices[i].text # "Canvas created with N tabs!"


\* C24: in every settings state canvasOutputFolder starts with "/" and does
\* not end with "/".
C24_FolderNormalized ==
  LET f == settings.canvasOutputFolder
  IN Len(f) > 0 /\ f[1] = "/" /\ f[Len(f)] # "/"

\* What the code keeps: the folder starts with "/"; and an edit leaves a
\* trailing "/" only when the typed text is empty or "/" or ends with "//".
C24_StartsWithSlash ==
  LET f == settings.canvasOutputFolder
  IN Len(f) > 0 /\ f[1] = "/"

C24_EditedEndsWithSlash ==
  LET f == settings.canvasOutputFolder
  IN lastOp = "folder" /\ Len(f) > 1 /\ f[Len(f)] = "/"


\* C25: getAllOpenTabs (as the command calls it) returns one entry per pane
\* that has a document, in the host's traversal order, nothing for a pane
\* without a document, the empty list when no pane has one, and changes no
\* workspace state.
C25_OneEntryPerDocumentPane ==
  [][lastOp' = "cmd" =>
       LET docs == {l \in Leaf : leafView[l] # "nofile"}
       IN /\ Len(tabs') = Cardinality(docs)
          /\ \A l \in docs :
               LET i == Cardinality({m \in docs : m <= l})
               IN tabs'[i].hasFile /\ tabs'[i].path = leafView[l]
          /\ UNCHANGED <<hostVars, surfaceVars, markVars, cardVars>>]_vars

\* C25 witness: the command ran with a pane without a document in front of a
\* pane with one; the list holds the second pane only.
C25_Witness ==
  /\ lastOp = "cmd"
  /\ leafView[1] = "nofile" /\ leafView[2] \in Paths
  /\ Len(tabs) = 1 /\ tabs[1].path = leafView[2]

\* C25 witness: the command ran with two document panes; the list keeps the
\* traversal order.
C25_WitnessOrder ==
  /\ lastOp = "cmd"
  /\ leafView[1] = "b" /\ leafView[2] = "a"
  /\ Len(tabs) = 2 /\ tabs[1].path = "b" /\ tabs[2].path = "a"

\* C25 witness: no pane has a document; the list is empty.
C25_WitnessEmpty ==
  /\ lastOp = "cmd"
  /\ \A l \in Leaf : leafView[l] = "nofile"
  /\ tabs = <<>>


C26_PlainDropAppendsNothing ==
  [][lastOp' = "drop" => UNCHANGED dropVars]_vars


\* C27: when the activation runs on a canvas with enableBatchOperations
\* true, the context menu of the canvas is installed.
C27_MenuInstalledWhenOn ==
  [][(lastOp' = "activate" /\ clickRef' /\ settings.enableBatchOperations) =>
       menuWired']_vars

\* What holds: with enableBatchOperations false an activation installs no
\* context menu.
C27_MenuNotInstalledWhenOff ==
  [][(lastOp' = "activate" /\ ~settings.enableBatchOperations) =>
       ~menuWired']_vars


\* The path buildFileNodeMap can take from a card of kind k: a string file
\* field, otherwise the string path of a file object; "" when there is none.
C28_PathOf(k) == IF k.shape \in {"str", "obj"} THEN k.path ELSE NoPath

C28_Keys(map) == {p \in Paths : map[p] # NoCard}

C28_Usable(v) == {i \in DOMAIN nodes[v] : C28_PathOf(cards[nodes[v][i]]) # NoPath}

\* C28, as first stated: a rebuild maps every card with an extractable
\* non-empty path, so the index has as many entries as there are such cards.
C28_EveryUsableCardMapped ==
  [][lastOp' \in {"bind", "rebuild"} =>
       \A v \in CanvasViews :
          /\ \A i \in C28_Usable(v) : \E p \in Paths : activeFileMap'[p] = nodes[v][i]
          /\ Cardinality(C28_Keys(activeFileMap')) = Cardinality(C28_Usable(v))]_vars

\* C28: an index rebuild over a surface has exactly the extractable
\* non-empty paths of its cards as keys, each mapped to the last card of the
\* surface that carries it, and skips the other cards without error (the
\* bind goes on to register its listener).
C28_IndexOfUsablePaths ==
  [][lastOp' \in {"bind", "rebuild"} =>
       \A v \in CanvasViews :
          /\ \A p \in Paths :
               LET at == {i \in C28_Usable(v) : C28_PathOf(cards[nodes[v][i]]) = p}
               IN IF at = {} THEN activeFileMap'[p] = NoCard
                  ELSE \E i \in at : /\ \A j \in at : j <= i
                                     /\ activeFileMap'[p] = nodes[v][i]
          /\ lastOp' = "bind" => eventRef' /\ canvasView' = v]_vars

\* C28 witness: a surface of 3 cards, one without an extractable path and
\* two of different documents, was indexed: the index has 2 entries.
C28_Witness ==
  /\ lastOp = "bind"
  /\ Len(nodes[1]) = 3
  /\ Cardinality(C28_Usable(1)) = 2
  /\ Cardinality(C28_Keys(activeFileMap)) = 2

\* A surface of 3 cards, one without an extractable path and two of the
\* same document, was indexed: the index has 1 entry.
C28_WitnessSamePath ==
  /\ lastOp = "bind"
  /\ Len(nodes[1]) = 3
  /\ Cardinality(C28_Usable(1)) = 2
  /\ Cardinality(C28_Keys(activeFileMap)) = 1


\* C29: the index follows the card set of the bound surface: when a focus
\* change has been processed (no rebuild pending), the index holds no handle
\* of a card that left the surface, and if a card of the surface carries the
\* active document's path, a card of that path is highlighted.
C29_IndexFollowsCardSet ==
  (lastOp = "focus" /\ canvasView # 0 /\ hasCanvas[canvasView] /\ retryTimers = 0) =>
     LET onSurface == Range(nodes[canvasView])
     IN /\ \A p \in Paths :
             activeFileMap[p] # NoCard => activeFileMap[p] \in onSurface
        /\ (/\ activeLeaf # 0
            /\ leafView[activeLeaf] \in Paths
            /\ \E c \in onSurface : IndexPath(c) = leafView[activeLeaf])
             => \E c \in activeTab \cap onSurface : IndexPath(c) = leafView[activeLeaf]

\* C30: after a setupTabSync call that changes the view the engine holds,
\* every card handle of the index is a card of the surface of that view.
C30_IndexOfBoundSurface ==
  [][(canvasView' # canvasView /\ canvasView' # 0) =>
       \A p \in Paths :
          activeFileMap'[p] # NoCard =>
             activeFileMap'[p] \in Range(nodes[canvasView'])]_vars

\* What holds: a setupTabSync call on a view with a canvas leaves an index
\* of cards of that view's surface.
C30_BindBuildsForSurface ==
  [][lastOp' = "bind" =>
       \A p \in Paths :
          activeFileMap'[p] # NoCard =>
             activeFileMap'[p] \in Range(nodes[canvasView'])]_vars


\* C31: when the engine is rebound from a surface to another one, no card of
\* the surface it leaves retains the active-highlight mark.
C31_RebindClearsOldSurface ==
  [][(lastOp' = "bind" /\ canvasView # 0 /\ canvasView' # canvasView) =>
       activeTab' \cap Range(nodes[canvasView]) = {}]_vars

\* What holds: a focus-change event sets or clears active-highlight marks
\* only on cards of the surface the engine is bound to.
C31_FocusTouchesBoundSurfaceOnly ==
  [][lastOp' = "focus" =>
       \A c \in DOMAIN cards :
          (c \in activeTab') # (c \in activeTab) => c \in Range(nodes[canvasView])]_vars


\* C32: a retry timer of the index rebuild that fires after cleanup is a
\* no-op: it raises no error, changes no engine state and marks no card.
C32_LateTimerIsNoOp ==
  [][(canvasView = 0 /\ retryTimers' = retryTimers - 1) =>
       /\ BuildFileNodeMap(canvasView, hasRetriedBuildingMap).outcome # "throw"
       /\ UNCHANGED <<canvasView, activeFileMap, eventRef, hasRetriedBuildingMap,
                      scanView, markVars>>]_vars

\* What holds: such a timer leaves the engine's fields and the marks as
\* cleanup left them.
C32_LateTimerChangesNothing ==
  [][(canvasView = 0 /\ retryTimers' = retryTimers - 1) =>
       UNCHANGED <<canvasView, activeFileMap, eventRef, hasRetriedBuildingMap,
                   scanView, markVars>>]_vars


\* C33: on a surface that only ever holds non-file cards, a retry timer that
\* fires while the retry guard is reset (every pending timer is then one of
\* an earlier bind: setupTabSync or cleanup ran since it was started) starts
\* no further retry timer.
C33_StaleTimerStartsNoRetry ==
  [][(\A c \in DOMAIN cards : cards[c].shape = "none") =>
       ~(/\ ~hasRetriedBuildingMap /\ hasRetriedBuildingMap'
         /\ retryTimers > 0 /\ retryTimers' = retryTimers
         /\ canvasView' = canvasView)]_vars


\* C34: after any sequence of setupTabSync and cleanup calls the workspace
\* holds at most one focus-change callback of the engine (one exactly when
\* the engine's eventRef is set); and an event is handled in one piece: the
\* highlight update and then the background scan of the state the event
\* found, with no other step in between.
C34_SingleSubscription ==
  /\ [](listeners <= 1 /\ (listeners = 1 <=> eventRef))
  /\ [][lastOp' = "focus" =>
          /\ activeTab' = UpdateActiveHighlight(canvasView, activeFileMap, activeTab)
          /\ bgOpen' = ScanOpenTabs(scanView, bgOpen)
          /\ UNCHANGED <<engineVars, hostVars, surfaceVars>>]_vars

\* C34 witness: setupTabSync has run at least twice (two retry timers are
\* pending) and one callback is registered.
C34_Witness ==
  /\ lastOp = "bind" /\ retryTimers = 2
  /\ eventRef /\ listeners = 1

\* C34 witness: cleanup after a bind left no callback registered.
C34_WitnessCleanup ==
  /\ lastOp = "cleanup" /\ retryTimers > 0
  /\ ~eventRef /\ listeners = 0


\* The entries a pass has to process if no entry stops it.
C35_Eligible(ns, pass) ==
  CASE pass = "build" -> {i \in DOMAIN ns : ~ns[i].isNull /\ ns[i].shape = "obj"}
    [] pass = "clear" -> {i \in DOMAIN ns : ~ns[i].isNull /\ ns[i].hasEl}
    [] pass = "scan" ->
         {i \in DOMAIN ns :
            /\ ~ns[i].isNull /\ ns[i].shape = "obj" /\ ns[i].hasEl
            /\ \A j \in DOMAIN ns :
                 (j > i /\ ~ns[j].isNull /\ ns[j].shape = "obj") => ns[j].path # ns[i].path}

\* C35: in an index rebuild, a highlight clear and a background scan, a card
\* that is null, has no extractable path or has no DOM element does not keep
\* the other cards of the pass from being processed, and the pass does not
\* throw.
C35_PassesIndependent ==
  \A k \in DOMAIN passOut :
     /\ ~passOut[k].threw
     /\ passOut[k].done = C35_Eligible(nodeViews, passOut[k].pass)

\* What holds: the index rebuild is independent per card for all three
\* kinds of card, and the other two passes for cards without a path or
\* without a DOM element.
C35_IndependentWithoutNull ==
  \A k \in DOMAIN passOut :
     (passOut[k].pass = "build" \/ \A i \in DOMAIN nodeViews : ~nodeViews[i].isNull) =>
        /\ ~passOut[k].threw
        /\ passOut[k].done = C35_Eligible(nodeViews, passOut[k].pass)


\* C36: for every card, whatever the shape of its file reference, the index
\* builder, the background scanner and the context-menu collector derive
\* the same optional path.
C36_SamePathEverywhere ==
  \A c \in DOMAIN cards :
     IndexPath(c) = ScanPath(c) /\ ScanPath(c) = MenuPath(c)

\* What holds: the scanner and the context-menu collector agree on every
\* card, and the index builder agrees with them on every card but one that
\* keeps its file only under data.
C36_AgreeButDataShape ==
  \A c \in DOMAIN cards :
     /\ ScanPath(c) = MenuPath(c)
     /\ cards[c].shape # "data" => IndexPath(c) = ScanPath(c)


\* C37: after a focus-change event is processed, the card of the focused
\* document is not marked background-open unless the document is also open
\* in a pane other than the focused one.
C37_FocusedCardNotBackground ==
  (Bound /\ scanView = canvasView /\ lastOp = "focus" /\ ActivePath # NoPath) =>
     LET c == CanvasFileNodes(scanView)[ActivePath]
     IN (c # NoCard /\ c \in bgOpen) =>
           \E l \in Leaf : l # activeLeaf /\ leafView[l] = ActivePath

\* What holds: after the event a scanned card is marked background-open
\* only if its document is open in some pane, the focused one included.
C37_MarkedOnlyIfOpen ==
  (Bound /\ scanView = canvasView /\ lastOp = "focus") =>
     \A p \in Paths :
        LET c == CanvasFileNodes(scanView)[p]
        IN (c # NoCard /\ c \in bgOpen) => p \in OpenPaths


\* C38: when the last pending retry of a bound engine has rebuilt the index
\* and the index has an entry for the document that is active, that card is
\* highlighted at once, without a further focus-change event.
C38_RetryHighlightsActive ==
  [][(/\ retryTimers' = retryTimers - 1 /\ retryTimers' = 0
      /\ Bound' /\ ActivePath # NoPath
      /\ activeFileMap'[ActivePath] # NoCard
      /\ activeFileMap'[ActivePath] \in SurfaceCards')
       => activeFileMap'[ActivePath] \in activeTab']_vars

\* What holds: right after a bind and right after a focus-change event the
\* index entry of the active document is highlighted.
C38_BindAndFocusHighlightActive ==
  (Bound /\ lastOp \in {"bind", "focus"} /\ ActivePath # NoPath
     /\ activeFileMap[ActivePath] # NoCard)
    => activeFileMap[ActivePath] \in activeTab


\* The panes that show file f.
C39_PanesOf(ps, f) == {k \in DOMAIN ps : ps[k].path = f}

\* C39: batch open in background never creates a second pane for a document
\* that is already open in any pane.
C39_NoSecondPane ==
  \A f \in MenuFiles : Cardinality(C39_PanesOf(panes, f)) <= 1

\* What holds: no second pane is created for a note that is open in a
\* markdown view; and when a call has ended, every file of its list is open
\* in a pane or its failure was logged, so a failure stops nothing.
C39_NoSecondMarkdownPane ==
  /\ Cardinality(C39_PanesOf(panes, "a")) <= 1
  /\ (openPc = "idle" /\ lastOp \in {"batch", "opened", "openfail"}) =>
        \A i \in DOMAIN openList :
           C39_PanesOf(panes, openList[i]) # {} \/ openList[i] \in openErrors

\* A call went on after a failed open and opened the next file.
C39_WitnessGoesOn ==
  /\ openPc = "idle" /\ lastOp = "opened"
  /\ openList = <<"p", "a">> /\ openErrors = {"p"} /\ successCount = 1

====
